---- MODULE Spec2Model ----
(***************************************************************************)
(* A model of the fast-schema validation engine: the result model          *)
(* (src/src/error.rs), the path tracker, options and batch heuristics      *)
(* (src/src/utils.rs), the schema model (src/src/schema.rs) and the        *)
(* recursive validator with its pattern cache (src/src/validator.rs).      *)
(*                                                                         *)
(* A text value is the sequence of its characters; an error path is the    *)
(* sequence of its tokens (segments and "." separators, in the order they  *)
(* are written into the text); a message is a string built with \o.        *)
(* Numbers are f64 values on the grid of multiples of 1/Scale, held as the *)
(* integer number of grid units, so every operation on them is exact.      *)
(***************************************************************************)
EXTENDS Integers, Sequences, FiniteSets, TLC

VARIABLES compiled_schema, regex_cache, stats, last, remembered

vars == <<compiled_schema, regex_cache, stats, last, remembered>>

-----------------------------------------------------------------------------
(* Bounds of the model *)

\* Longest text value, in characters.
MaxLen == 3

\* Largest min_length / max_length bound of a string schema.
MaxBound == 2

\* Largest magnitude, in whole numbers, of a numeric value or bound.
MaxNum == 2

\* Largest clock reading, in milliseconds, a performance tracker reports.
MaxElapsedMs == 1

\* Longest input list handed to validate_many next to the small lists and
\* the lists around the two thresholds: lengths 0..MaxSmallBatch.
MaxSmallBatch == 2

\* How far beyond a threshold the batch lengths go.
MaxBeyond == 1

\* Largest position of the pool an input list of validate_many starts at.
MaxSeed == 1

\* The longest list of results ValidationResult::merge is given.
MaxMerge == 3

\* The largest count a performance tracker is incremented by.
MaxItems == 1

\* How many add_error calls follow one another.
MaxAdded == 2

\* The longest list of required names of an object schema.
MaxRequired == 2

\* The longest list of branches of a combinator.
MaxBranches == 2

\* How many schemas are nested in one another.
MaxNesting == 2

\* Largest max_errors of the validation options.
MaxErrors == 2

\* Largest batch_size of a BatchValidator, and the longest list it is given.
MaxBatchSize == 3

\* How many values a UniqueChecker is given.
MaxInserts == 3

\* How many push, push_index and pop calls a PathBuilder is given.
MaxPathCalls == 4

-----------------------------------------------------------------------------
(* Program constants *)

\* f64 values are held on the grid of halves: n grid units stand for n / 2.
Scale == 2

\* validate_parallel: const CHUNK_SIZE: usize = 1000
CHUNK_SIZE == 1000

\* can_parallelize: data_size > 100
PARALLEL_MIN_SIZE == 100

\* optimize_for_batch: batch_size > 1000
REORDER_MIN_SIZE == 1000

\* ValidationOptions::default().parallel_threshold
DEFAULT_PARALLEL_THRESHOLD == 1000

\* validate_many: parallel_threshold: 100
BATCH_PARALLEL_THRESHOLD == 100

-----------------------------------------------------------------------------
(* Option<T>: None is the empty sequence, Some(v) the one-element one. *)

None == <<>>

Some(v) == <<v>>

IsSome(o) == Len(o) = 1

IsNone(o) == Len(o) = 0

Unwrap(o) == o[1]

-----------------------------------------------------------------------------
(* Sequence helpers *)

RECURSIVE Concat(_)
\* The concatenation of a sequence of sequences.
Concat(ss) == IF ss = <<>> THEN <<>> ELSE Head(ss) \o Concat(Tail(ss))

Range(s) == {s[i] : i \in DOMAIN s}

Abs(x) == IF x < 0 THEN -x ELSE x

-----------------------------------------------------------------------------
(* serde_json::Value *)

JNull == [kind |-> "null"]

JBool(b) == [kind |-> "boolean", b |-> b]

\* An integer literal (serde_json keeps it as i64/u64); n counts grid units.
JInt(i) == [kind |-> "number", repr |-> "int", n |-> i * Scale]

\* A float literal; h counts grid units, so JFloat(3) is 1.5 when Scale = 2.
JFloat(h) == [kind |-> "number", repr |-> "float", n |-> h]

\* What as_f64 returns for the integers just below 2^64: the f64 2^64, kept
\* as a number of grid units above every bound the schemas of the model use
U64_MAX_AS_F64 == 1073741824

\* The integer literal 18446744073709551615 - below: above i64::MAX, so
\* serde_json keeps it as u64, as_i64 is None and as_f64 rounds it to 2^64
JUint(below) == [kind |-> "number", repr |-> "uint", n |-> U64_MAX_AS_F64, below |-> below]

\* A text value: the sequence of its characters (Unicode code points).
JStr(chars) == [kind |-> "string", chars |-> chars]

JArr(items) == [kind |-> "array", items |-> items]

\* An object: its entries in the iteration order of the map, keys distinct.
JObj(entries) == [kind |-> "object", entries |-> entries]

Entry(key, value) == [key |-> key, value |-> value]

\* Value::as_str / as_f64 / as_array / as_object / is_boolean / is_null
IsStr(v) == v.kind = "string"

IsNum(v) == v.kind = "number"

IsArr(v) == v.kind = "array"

IsObj(v) == v.kind = "object"

IsBool(v) == v.kind = "boolean"

IsNull(v) == v.kind = "null"

\* Map::keys
Keys(obj) == [i \in DOMAIN obj.entries |-> obj.entries[i].key]

\* Map::contains_key
ContainsKey(obj, key) == \E i \in DOMAIN obj.entries : obj.entries[i].key = key

\* Map::get, for a key the map contains
GetKey(obj, key) == (CHOOSE i \in DOMAIN obj.entries : obj.entries[i].key = key)

Get(obj, key) == obj.entries[GetKey(obj, key)].value

\* The number of UTF-8 bytes of a character: str::len counts these,
\* str::chars().count() counts characters.
Utf8Width(c) == IF c \in {"a", "b", "/", "~", "0", "1"} THEN 1 ELSE 2

RECURSIVE ByteLen(_)
ByteLen(chars) == IF chars = <<>> THEN 0 ELSE Utf8Width(Head(chars)) + ByteLen(Tail(chars))

\* s.chars().count()
CharCount(chars) == Len(chars)

-----------------------------------------------------------------------------
(* SchemaType (the variants the validator evaluates) *)

SString(min_length, max_length, pattern, format) ==
    [type |-> "string", min_length |-> min_length, max_length |-> max_length,
     pattern |-> pattern, format |-> format]

SNumber(min, max, integer, multiple_of) ==
    [type |-> "number", min |-> min, max |-> max, integer |-> integer,
     multiple_of |-> multiple_of]

SBoolean == [type |-> "boolean"]

SArray(items, min_items, max_items, unique_items) ==
    [type |-> "array", items |-> items, min_items |-> min_items,
     max_items |-> max_items, unique_items |-> unique_items]

\* properties: the entries of the HashMap in its iteration order.
SObject(properties, required, additional_properties) ==
    [type |-> "object", properties |-> properties, required |-> required,
     additional_properties |-> additional_properties]

Prop(name, schema) == [name |-> name, schema |-> schema]

SNull == [type |-> "null"]

SAny == [type |-> "any"]

SOneOf(schemas) == [type |-> "oneOf", schemas |-> schemas]

SAllOf(schemas) == [type |-> "allOf", schemas |-> schemas]

SAnyOf(schemas) == [type |-> "anyOf", schemas |-> schemas]

\* HashMap::contains_key on the declared properties
HasProp(properties, key) == \E i \in DOMAIN properties : properties[i].name = key

-----------------------------------------------------------------------------
(* Formatting: format!("{}", x) *)

\* usize as text
FmtUsize(n) == ToString(n)

\* f64 as text: 5.0 prints "5", 25.5 prints "25.5"
FmtF64(n) == (IF n < 0 THEN "-" ELSE "") \o ToString(Abs(n) \div Scale) \o (IF Abs(n) % Scale = 0 THEN "" ELSE ".5")

-----------------------------------------------------------------------------
(* PathBuilder *)

\* PathBuilder::new
PathNew == <<>>

\* PathBuilder::push
Push(segments, segment) == Append(segments, segment)

\* format!("[{}]", index)
IndexSegment(index) == "[" \o ToString(index) \o "]"

\* A push_index that pushes the number without brackets
PushIndexBare(segments, index) == Append(segments, ToString(index))

\* PathBuilder::push_index
PushIndex(segments, index) == Append(segments, IndexSegment(index))

\* A pop that removes nothing
PopNothing(segments) == segments

\* PathBuilder::pop (Vec::pop of an empty vector does nothing)
Pop(segments) == IF segments = <<>> THEN <<>> ELSE SubSeq(segments, 1, Len(segments) - 1)

RECURSIVE Join(_)
\* segments.join("."), as the sequence of the tokens of the text: the segments
\* with a "." token between neighbours
Join(segments) == IF segments = <<>> THEN <<>> ELSE IF Len(segments) = 1 THEN <<segments[1]>> ELSE <<segments[1], ".">> \o Join(Tail(segments))

\* PathBuilder::build; the empty text is the empty token sequence
Build(segments) == IF segments = <<>> THEN <<>> ELSE Join(segments)

-----------------------------------------------------------------------------
(* ValidationOptions and ValidationContext *)

\* impl Default for ValidationOptions
DefaultOptions == [early_exit |-> FALSE, collect_all_errors |-> TRUE, enable_performance_tracking |-> FALSE, max_errors |-> None, parallel_threshold |-> DEFAULT_PARALLEL_THRESHOLD]

\* The options validate_many builds
BatchOptions == [DefaultOptions EXCEPT !.enable_performance_tracking = TRUE, !.parallel_threshold = BATCH_PARALLEL_THRESHOLD]

\* ValidationContext::new; the tracker starts with no items
ContextNew(options) == [path |-> PathNew, items_validated |-> 0, options |-> options]

\* ValidationContext::should_continue
ShouldContinue(context, error_count) == IF IsSome(context.options.max_errors) THEN error_count < Unwrap(context.options.max_errors) ELSE (~context.options.early_exit) \/ error_count = 0

\* PerformanceTracker::increment_items
IncrementItems(context, count) == [context EXCEPT !.items_validated = @ + count]

\* PerformanceTracker::throughput: items / (elapsed_ms / 1000.0), kept as the
\* fraction num / den; den = 0 is the f64 infinity the division yields.
Throughput(items_validated, elapsed_ms) == IF items_validated = 0 THEN [num |-> 0, den |-> 1] ELSE [num |-> items_validated * 1000, den |-> elapsed_ms]

\* PerformanceTracker::finish, with the clock reading elapsed_ms
Finish(context, elapsed_ms) == [validation_time_ms |-> elapsed_ms, items_validated |-> context.items_validated, throughput |-> Throughput(context.items_validated, elapsed_ms), memory_used_bytes |-> None]

-----------------------------------------------------------------------------
(* ValidationError *)

\* ValidationError::new
NewError(path, message, code) == [path |-> path, message |-> message, code |-> code, expected |-> None, actual |-> None]

\* ValidationError::with_values
WithValues(path, message, code, expected, actual) == [path |-> path, message |-> message, code |-> code, expected |-> Some(expected), actual |-> Some(actual)]

\* ValidationError::type_mismatch; the kind of a value is its JSON type name
TypeMismatch(path, expected, actual) == WithValues(path, "Expected " \o expected \o ", got " \o actual.kind, "InvalidType", expected, actual.kind)

\* ValidationError::missing_property
MissingProperty(path, property) == NewError(path \o <<".", property>>, "Required property '" \o property \o "' is missing", "ObjectMissingProperty")

\* The message of ValidationError::string_length
StringLengthMessage(actual_length, min, max) ==
    IF IsSome(min) /\ IsSome(max) THEN "String length " \o FmtUsize(actual_length) \o " is not between " \o FmtUsize(Unwrap(min)) \o " and " \o FmtUsize(Unwrap(max))
    ELSE IF IsSome(min) THEN "String length " \o FmtUsize(actual_length) \o " is less than minimum " \o FmtUsize(Unwrap(min))
    ELSE IF IsSome(max) THEN "String length " \o FmtUsize(actual_length) \o " is greater than maximum " \o FmtUsize(Unwrap(max))
    ELSE "String length validation failed"

\* The code ValidationError::string_length picks
StringLengthCode(actual_length, min, max) == IF IsSome(min) THEN (IF actual_length < Unwrap(min) THEN "StringTooShort" ELSE "StringTooLong") ELSE "StringTooLong"

\* ValidationError::string_length
StringLength(path, actual_length, min, max) == WithValues(path, StringLengthMessage(actual_length, min, max), StringLengthCode(actual_length, min, max), [min |-> min, max |-> max], actual_length)

\* The message of ValidationError::number_range
NumberRangeMessage(actual, min, max) ==
    IF IsSome(min) /\ IsSome(max) THEN "Number " \o FmtF64(actual) \o " is not between " \o FmtF64(Unwrap(min)) \o " and " \o FmtF64(Unwrap(max))
    ELSE IF IsSome(min) THEN "Number " \o FmtF64(actual) \o " is less than minimum " \o FmtF64(Unwrap(min))
    ELSE IF IsSome(max) THEN "Number " \o FmtF64(actual) \o " is greater than maximum " \o FmtF64(Unwrap(max))
    ELSE "Number range validation failed"

\* The code ValidationError::number_range picks
NumberRangeCode(actual, min, max) == IF IsSome(min) THEN (IF actual < Unwrap(min) THEN "NumberTooSmall" ELSE "NumberTooLarge") ELSE "NumberTooLarge"

\* ValidationError::number_range
NumberRange(path, actual, min, max) == WithValues(path, NumberRangeMessage(actual, min, max), NumberRangeCode(actual, min, max), [min |-> min, max |-> max], actual)

-----------------------------------------------------------------------------
(* ValidationResult *)

\* ValidationResult::success
Success(data) == [success |-> TRUE, data |-> Some(data), errors |-> <<>>, performance |-> None]

\* ValidationResult::success_with_stats
SuccessWithStats(data, performance_stats) == [success |-> TRUE, data |-> Some(data), errors |-> <<>>, performance |-> Some(performance_stats)]

\* ValidationResult::failure
Failure(errors) == [success |-> FALSE, data |-> None, errors |-> errors, performance |-> None]

\* ValidationResult::failure_with_stats
FailureWithStats(errors, performance_stats) == [success |-> FALSE, data |-> None, errors |-> errors, performance |-> Some(performance_stats)]

\* add_error that forgets to drop the payload
AddErrorKeepsData(result, error) == [result EXCEPT !.errors = Append(@, error), !.success = FALSE]

\* ValidationResult::add_error
AddErrorTo(result, error) == [result EXCEPT !.errors = Append(@, error), !.success = FALSE, !.data = None]

\* The locals of merge before its loop
MergeStart == [merged_errors |-> <<>>, all_successful |-> TRUE, merged_data |-> None, total_time |-> 0, total_items |-> 0, any_performance |-> FALSE]

\* The loop body of merge that lets every successful input overwrite the payload
MergeOneLastWins(acc, result) ==
    LET seen == IF ~result.success
                THEN [acc EXCEPT !.all_successful = FALSE, !.merged_errors = @ \o result.errors]
                ELSE [acc EXCEPT !.merged_data = result.data]
    IN  IF IsSome(result.performance)
        THEN [seen EXCEPT !.total_time = @ + Unwrap(result.performance).validation_time_ms, !.total_items = @ + Unwrap(result.performance).items_validated, !.any_performance = TRUE]
        ELSE seen

\* The loop body of merge for one input; any_performance is not a local of
\* the code, it only tells whether the `if let Some(perf)` branch ever ran
MergeOne(acc, result) ==
    LET seen == IF ~result.success
                THEN [acc EXCEPT !.all_successful = FALSE, !.merged_errors = @ \o result.errors]
                ELSE IF IsNone(acc.merged_data) THEN [acc EXCEPT !.merged_data = result.data]
                ELSE acc
    IN  IF IsSome(result.performance)
        THEN [seen EXCEPT !.total_time = @ + Unwrap(result.performance).validation_time_ms, !.total_items = @ + Unwrap(result.performance).items_validated, !.any_performance = TRUE]
        ELSE seen

RECURSIVE MergeLoop(_, _, _)
\* for result in results, from position i
MergeLoop(results, i, acc) == IF i > Len(results) THEN acc ELSE MergeLoop(results, i + 1, MergeOne(acc, results[i]))

\* The stats merge attaches: total_items as f64 / (total_time / 1000.0) is kept
\* as the fraction num / den, den = 0 being the f64 infinity
MergedPerformance(acc) ==
    IF acc.total_items > 0
    THEN Some([validation_time_ms |-> acc.total_time, items_validated |-> acc.total_items, throughput |-> [num |-> acc.total_items * 1000, den |-> acc.total_time], memory_used_bytes |-> None])
    ELSE None

\* ValidationResult::merge
Merge(results) ==
    LET acc == MergeLoop(results, 1, MergeStart)
    IN  IF acc.all_successful
        THEN [success |-> TRUE, data |-> acc.merged_data, errors |-> <<>>, performance |-> MergedPerformance(acc)]
        ELSE [success |-> FALSE, data |-> None, errors |-> acc.merged_errors, performance |-> MergedPerformance(acc)]

-----------------------------------------------------------------------------
(* The regex crate, for the patterns the schemas of the model use *)

\* The patterns Regex::new accepts; every other pattern is a syntax error.
ValidPatterns == {"^a+$", "^b"}

\* Regex::new: the compiled regex (named by its source) or the error
RegexNew(pattern) == IF pattern \in ValidPatterns THEN Some(pattern) ELSE None

\* Regex::is_match
IsMatch(regex, chars) ==
    IF regex = "^a+$" THEN Len(chars) > 0 /\ \A i \in DOMAIN chars : chars[i] = "a"
    ELSE IF regex = "^b" THEN Len(chars) > 0 /\ chars[1] = "b"
    ELSE FALSE

\* HashMap::new: the empty pattern cache (a function from source to regex)
EmptyCache == <<>>

\* HashMap::insert
CacheInsert(cache, key, regex) == (key :> regex) @@ cache

\* get_or_compile_regex with a one-slot cache: a hit returns whatever is cached
GetOrCompileRegexAnyHit(cache, pattern) ==
    IF DOMAIN cache # {} THEN [regex |-> Some(cache[CHOOSE k \in DOMAIN cache : TRUE]), cache |-> cache]
    ELSE LET compiled == RegexNew(pattern)
         IN  IF IsSome(compiled) THEN [regex |-> compiled, cache |-> CacheInsert(cache, pattern, Unwrap(compiled))]
             ELSE [regex |-> None, cache |-> cache]

\* get_or_compile_regex that compiles on every call and caches nothing
GetOrCompileRegexNoInsert(cache, pattern) == [regex |-> RegexNew(pattern), cache |-> cache]

\* Validator::get_or_compile_regex: the regex, if any, and the cache afterwards
GetOrCompileRegex(cache, pattern) ==
    IF pattern \in DOMAIN cache THEN [regex |-> Some(cache[pattern]), cache |-> cache]
    ELSE LET compiled == RegexNew(pattern)
         IN  IF IsSome(compiled) THEN [regex |-> compiled, cache |-> CacheInsert(cache, pattern, Unwrap(compiled))]
             ELSE [regex |-> None, cache |-> cache]

-----------------------------------------------------------------------------
(* String formats (the hand-written predicates of utils.rs) *)

RECURSIVE EscapesValid(_)
\* The scan of is_valid_json_pointer: every '~' is followed by '0' or '1'
EscapesValid(chars) ==
    IF chars = <<>> THEN TRUE
    ELSE IF Head(chars) = "~" THEN (Len(chars) >= 2 /\ chars[2] \in {"0", "1"} /\ EscapesValid(Tail(Tail(chars))))
    ELSE EscapesValid(Tail(chars))

\* is_valid_json_pointer
IsValidJsonPointer(chars) ==
    IF chars = <<>> \/ chars = <<"/">> THEN TRUE
    ELSE IF Head(chars) # "/" THEN FALSE
    ELSE EscapesValid(chars)

\* char::is_ascii_digit
IsAsciiDigit(c) == c \in {"0", "1"}

RECURSIVE DigitPrefix(_)
\* The length of the leading run of digits
DigitPrefix(chars) == IF chars # <<>> /\ IsAsciiDigit(Head(chars)) THEN 1 + DigitPrefix(Tail(chars)) ELSE 0

\* is_valid_relative_json_pointer
IsValidRelativeJsonPointer(chars) ==
    IF chars = <<>> THEN FALSE
    ELSE IF ~IsAsciiDigit(Head(chars)) THEN FALSE
    ELSE LET remainder == SubSeq(chars, DigitPrefix(chars) + 1, Len(chars))
         IN  remainder = <<>> \/ IsValidJsonPointer(remainder)

\* validate_string_format, for the formats of the model
ValidateStringFormat(chars, format) ==
    IF format = "json-pointer" THEN IsValidJsonPointer(chars)
    ELSE IF format = "relative-json-pointer" THEN IsValidRelativeJsonPointer(chars)
    ELSE FALSE

\* fmt_name
FmtName(format) == format

-----------------------------------------------------------------------------
(* Scalar validators.  Every validator returns the error list, the pattern *)
(* cache afterwards and the path of the context afterwards.                *)

Outcome(errors, cache, path) == [errors |-> errors, cache |-> cache, path |-> path]

\* validate_string: the two length checks
StringLengthErrors(len, min_length, max_length, path) ==
    (IF IsSome(min_length) /\ len < Unwrap(min_length) THEN <<StringLength(path, len, Some(Unwrap(min_length)), max_length)>> ELSE <<>>)
    \o (IF IsSome(max_length) /\ len > Unwrap(max_length) THEN <<StringLength(path, len, min_length, Some(Unwrap(max_length)))>> ELSE <<>>)

\* A pattern check that reports nothing for a pattern that does not compile
StringPatternErrorsSilent(chars, pattern, looked, path) ==
    IF IsNone(pattern) \/ IsNone(looked.regex) THEN <<>>
    ELSE IF ~IsMatch(Unwrap(looked.regex), chars) THEN <<NewError(path, "String does not match pattern: " \o Unwrap(pattern), "StringPatternMismatch")>> ELSE <<>>

\* validate_string: the pattern check, given what the cache lookup returned
StringPatternErrors(chars, pattern, looked, path) ==
    IF IsNone(pattern) THEN <<>>
    ELSE IF IsSome(looked.regex) THEN (IF ~IsMatch(Unwrap(looked.regex), chars) THEN <<NewError(path, "String does not match pattern: " \o Unwrap(pattern), "StringPatternMismatch")>> ELSE <<>>)
    ELSE <<NewError(path, "Invalid regex pattern: " \o Unwrap(pattern), "StringPatternMismatch")>>

\* validate_string: the format check
StringFormatErrors(chars, format, path) ==
    IF IsSome(format) /\ ~ValidateStringFormat(chars, Unwrap(format)) THEN <<NewError(path, "String format '" \o FmtName(Unwrap(format)) \o "' validation failed", "StringFormatInvalid")>> ELSE <<>>

\* Validator::validate_string
ValidateString(value, min_length, max_length, pattern, format, context, cache) ==
    IF IsStr(value)
    THEN LET len    == CharCount(value.chars)
             path   == Build(context.path)
             looked == IF IsSome(pattern) THEN GetOrCompileRegex(cache, Unwrap(pattern)) ELSE [regex |-> None, cache |-> cache]
         IN  Outcome(StringLengthErrors(len, min_length, max_length, path)
                       \o StringPatternErrors(value.chars, pattern, looked, path)
                       \o StringFormatErrors(value.chars, format, path),
                     looked.cache, context.path)
    ELSE Outcome(<<TypeMismatch(Build(context.path), "string", value)>>, cache, context.path)

\* is_integer: value.fract() == 0.0 (every value of the model is finite)
IsInteger(n) == n % Scale = 0

\* |n % multiple| for f64 operands (the remainder truncates towards zero)
AbsRem(n, multiple) == Abs(n) % Abs(multiple)

\* r > f64::EPSILON for a remainder r >= 0: EPSILON = 2^-52 lies strictly
\* between 0 and one grid unit
ExceedsEpsilon(r) == r >= 1

\* Validator::validate_number
ValidateNumber(value, min, max, integer, multiple_of, context, cache) ==
    IF IsNum(value)
    THEN LET n    == value.n
             path == Build(context.path)
         IN  Outcome((IF integer /\ ~IsInteger(n) THEN <<NewError(path, "Number must be an integer", "NumberNotInteger")>> ELSE <<>>)
                       \o (IF IsSome(min) /\ n < Unwrap(min) THEN <<NumberRange(path, n, Some(Unwrap(min)), max)>> ELSE <<>>)
                       \o (IF IsSome(max) /\ n > Unwrap(max) THEN <<NumberRange(path, n, min, Some(Unwrap(max)))>> ELSE <<>>)
                       \o (IF IsSome(multiple_of) /\ Unwrap(multiple_of) # 0 /\ ExceedsEpsilon(AbsRem(n, Unwrap(multiple_of)))
                           THEN <<NewError(path, "Number must be a multiple of " \o FmtF64(Unwrap(multiple_of)), "NumberNotMultipleOf")>> ELSE <<>>),
                     cache, context.path)
    ELSE Outcome(<<TypeMismatch(Build(context.path), "number", value)>>, cache, context.path)

\* Validator::validate_boolean
ValidateBoolean(value, context, cache) ==
    IF ~IsBool(value) THEN Outcome(<<TypeMismatch(Build(context.path), "boolean", value)>>, cache, context.path)
    ELSE Outcome(<<>>, cache, context.path)

\* Validator::validate_null
ValidateNull(value, context, cache) ==
    IF ~IsNull(value) THEN Outcome(<<TypeMismatch(Build(context.path), "null", value)>>, cache, context.path)
    ELSE Outcome(<<>>, cache, context.path)

-----------------------------------------------------------------------------
(* UniqueChecker *)

RECURSIVE CharsToString(_)
\* The text of a character sequence
CharsToString(chars) == IF chars = <<>> THEN "" ELSE Head(chars) \o CharsToString(Tail(chars))

RECURSIVE ToJsonString(_)
RECURSIVE ItemsToJson(_)
RECURSIVE EntriesToJson(_)
\* The items of an array, comma separated
ItemsToJson(items) == IF items = <<>> THEN "" ELSE IF Len(items) = 1 THEN ToJsonString(items[1]) ELSE ToJsonString(items[1]) \o "," \o ItemsToJson(Tail(items))

\* The entries of an object, comma separated
EntriesToJson(entries) ==
    IF entries = <<>> THEN ""
    ELSE LET first == "\"" \o entries[1].key \o "\":" \o ToJsonString(entries[1].value)
         IN  IF Len(entries) = 1 THEN first ELSE first \o "," \o EntriesToJson(Tail(entries))

\* serde_json::to_string
ToJsonString(value) ==
    IF IsNull(value) THEN "null"
    ELSE IF IsBool(value) THEN (IF value.b THEN "true" ELSE "false")
    ELSE IF IsNum(value) THEN (IF value.repr = "int" THEN ToString(value.n \div Scale)
                               ELSE IF value.repr = "uint" THEN "1844674407370955161" \o ToString(5 - value.below)
                               ELSE FmtF64(value.n) \o (IF value.n % Scale = 0 THEN ".0" ELSE ""))
    ELSE IF IsStr(value) THEN "\"" \o CharsToString(value.chars) \o "\""
    ELSE IF IsArr(value) THEN "[" \o ItemsToJson(value.items) \o "]"
    ELSE "{" \o EntriesToJson(value.entries) \o "}"

\* UniqueChecker::new
UniqueCheckerNew == [strings |-> {}, numbers |-> {}, floats |-> {}, bools |-> {}, others |-> {}]

\* UniqueChecker::insert: whether the value was new, and the checker afterwards.
\* An integer literal goes to `numbers`, a float literal to `floats` (by its bits).
UniqueInsert(checker, value) ==
    IF IsStr(value) THEN [inserted |-> value.chars \notin checker.strings, checker |-> [checker EXCEPT !.strings = @ \cup {value.chars}]]
    ELSE IF IsNum(value) /\ value.repr = "int" THEN [inserted |-> value.n \notin checker.numbers, checker |-> [checker EXCEPT !.numbers = @ \cup {value.n}]]
    ELSE IF IsNum(value) THEN [inserted |-> value.n \notin checker.floats, checker |-> [checker EXCEPT !.floats = @ \cup {value.n}]]
    ELSE IF IsBool(value) THEN [inserted |-> value.b \notin checker.bools, checker |-> [checker EXCEPT !.bools = @ \cup {value.b}]]
    ELSE LET serialized == ToJsonString(value)
         IN  [inserted |-> serialized \notin checker.others, checker |-> [checker EXCEPT !.others = @ \cup {serialized}]]

\* UniqueChecker::len
UniqueLen(checker) == Cardinality(checker.strings) + Cardinality(checker.numbers) + Cardinality(checker.floats) + Cardinality(checker.bools) + Cardinality(checker.others)

RECURSIVE HasDuplicate(_, _)
\* validate_array's scan: whether some insert returns false
HasDuplicate(items, checker) ==
    IF items = <<>> THEN FALSE
    ELSE LET r == UniqueInsert(checker, Head(items))
         IN  IF ~r.inserted THEN TRUE ELSE HasDuplicate(Tail(items), r.checker)

-----------------------------------------------------------------------------
(* The recursive validator *)

RECURSIVE ValidateValue(_, _, _, _)
RECURSIVE ValidateItems(_, _, _, _, _, _)
RECURSIVE ValidateProperties(_, _, _, _, _, _)
RECURSIVE OneOfBranches(_, _, _, _, _, _)
RECURSIVE OneOfBranchesStopAtMatch(_, _, _, _, _, _)
RECURSIVE AllOfBranches(_, _, _, _, _, _)
RECURSIVE AnyOfBranches(_, _, _, _, _, _)

\* validate_array: the length checks and the uniqueness scan
ArrayShapeErrors(arr, min_items, max_items, unique_items, path) ==
    (IF IsSome(min_items) /\ Len(arr) < Unwrap(min_items) THEN <<NewError(path, "Array must have at least " \o FmtUsize(Unwrap(min_items)) \o " items", "ArrayTooShort")>> ELSE <<>>)
    \o (IF IsSome(max_items) /\ Len(arr) > Unwrap(max_items) THEN <<NewError(path, "Array must have at most " \o FmtUsize(Unwrap(max_items)) \o " items", "ArrayTooLong")>> ELSE <<>>)
    \o (IF unique_items /\ HasDuplicate(arr, UniqueCheckerNew) THEN <<NewError(path, "Array items must be unique", "ArrayNotUnique")>> ELSE <<>>)

\* validate_array: the loop over the items, from position i (1-based) on
ValidateItems(arr, i, items_schema, context, cache, errors) ==
    IF i > Len(arr) THEN Outcome(errors, cache, context.path)
    ELSE IF ~ShouldContinue(context, Len(errors)) THEN Outcome(errors, cache, context.path)
    ELSE LET inner == [context EXCEPT !.path = PushIndex(@, i - 1)]
             r     == ValidateValue(arr[i], items_schema, inner, cache)
         IN  ValidateItems(arr, i + 1, items_schema, [context EXCEPT !.path = Pop(r.path)], r.cache, errors \o r.errors)

\* Validator::validate_array
ValidateArray(value, items_schema, min_items, max_items, unique_items, context, cache) ==
    IF IsArr(value)
    THEN ValidateItems(value.items, 1, items_schema, context, cache, ArrayShapeErrors(value.items, min_items, max_items, unique_items, Build(context.path)))
    ELSE Outcome(<<TypeMismatch(Build(context.path), "array", value)>>, cache, context.path)

RECURSIVE RequiredErrorsFirstOnly(_, _, _)
\* A required check that stops at the first name the object lacks
RequiredErrorsFirstOnly(obj, required_props, path) ==
    IF required_props = <<>> THEN <<>>
    ELSE IF ~ContainsKey(obj, Head(required_props)) THEN <<MissingProperty(path, Head(required_props))>>
    ELSE RequiredErrorsFirstOnly(obj, Tail(required_props), path)

RECURSIVE RequiredErrors(_, _, _)
\* validate_object: one error for every entry of the required list the object lacks
RequiredErrors(obj, required_props, path) ==
    IF required_props = <<>> THEN <<>>
    ELSE (IF ~ContainsKey(obj, Head(required_props)) THEN <<MissingProperty(path, Head(required_props))>> ELSE <<>>)
         \o RequiredErrors(obj, Tail(required_props), path)

\* validate_object: the loop over the declared properties, from position i on
ValidateProperties(obj, i, properties, context, cache, errors) ==
    IF i > Len(properties) THEN Outcome(errors, cache, context.path)
    ELSE IF ~ContainsKey(obj, properties[i].name) THEN ValidateProperties(obj, i + 1, properties, context, cache, errors)
    ELSE IF ~ShouldContinue(context, Len(errors)) THEN Outcome(errors, cache, context.path)
    ELSE LET inner == [context EXCEPT !.path = Push(@, properties[i].name)]
             r     == ValidateValue(Get(obj, properties[i].name), properties[i].schema, inner, cache)
         IN  ValidateProperties(obj, i + 1, properties, [context EXCEPT !.path = Pop(r.path)], r.cache, errors \o r.errors)

RECURSIVE AdditionalErrorsFirstOnly(_, _, _)
\* An additional-property check that stops at the first undeclared key
AdditionalErrorsFirstOnly(keys, properties, path) ==
    IF keys = <<>> THEN <<>>
    ELSE IF ~HasProp(properties, Head(keys)) THEN <<NewError(path \o <<".", Head(keys)>>, "Additional property '" \o Head(keys) \o "' is not allowed", "ObjectAdditionalProperty")>>
    ELSE AdditionalErrorsFirstOnly(Tail(keys), properties, path)

RECURSIVE AdditionalErrors(_, _, _)
\* validate_object: one error for every key that is no declared property
AdditionalErrors(keys, properties, path) ==
    IF keys = <<>> THEN <<>>
    ELSE (IF ~HasProp(properties, Head(keys)) THEN <<NewError(path \o <<".", Head(keys)>>, "Additional property '" \o Head(keys) \o "' is not allowed", "ObjectAdditionalProperty")>> ELSE <<>>)
         \o AdditionalErrors(Tail(keys), properties, path)

\* Validator::validate_object
ValidateObject(value, properties, required, additional_properties, context, cache) ==
    IF IsObj(value)
    THEN LET missing == IF IsSome(required) THEN RequiredErrors(value, Unwrap(required), Build(context.path)) ELSE <<>>
             r       == ValidateProperties(value, 1, properties, context, cache, missing)
             extra   == IF ~additional_properties THEN AdditionalErrors(Keys(value), properties, Build(r.path)) ELSE <<>>
         IN  Outcome(r.errors \o extra, r.cache, r.path)
    ELSE Outcome(<<TypeMismatch(Build(context.path), "object", value)>>, cache, context.path)

\* The context a combinator branch runs in: ValidationContext::new with the
\* parent's options and a copy of the parent's path
BranchContext(context) == [ContextNew(context.options) EXCEPT !.path = context.path]

\* format!("{}[<kind>:{}].{}", context.path.build(), index, e.path), on every error
Annotate(errors, context, kind, index) == [k \in DOMAIN errors |-> [errors[k] EXCEPT !.path = Build(context.path) \o <<"[" \o kind \o ":" \o ToString(index) \o "]", ".">> \o @]]

\* A oneOf loop that stops at the first branch without error
OneOfBranchesStopAtMatch(value, schemas, i, context, cache, valid_count) ==
    IF i > Len(schemas) \/ valid_count > 0 THEN [valid_count |-> valid_count, cache |-> cache]
    ELSE LET r == ValidateValue(value, schemas[i], BranchContext(context), cache)
         IN  OneOfBranchesStopAtMatch(value, schemas, i + 1, context, r.cache, IF r.errors = <<>> THEN valid_count + 1 ELSE valid_count)

\* validate_one_of: the loop over the branches; the number of branches without error
OneOfBranches(value, schemas, i, context, cache, valid_count) ==
    IF i > Len(schemas) THEN [valid_count |-> valid_count, cache |-> cache]
    ELSE LET r == ValidateValue(value, schemas[i], BranchContext(context), cache)
         IN  OneOfBranches(value, schemas, i + 1, context, r.cache, IF r.errors = <<>> THEN valid_count + 1 ELSE valid_count)

\* Validator::validate_one_of
ValidateOneOf(value, schemas, context, cache) ==
    LET r == OneOfBranches(value, schemas, 1, context, cache, 0)
    IN  IF r.valid_count = 0 THEN Outcome(<<NewError(Build(context.path), "Value does not match any oneOf schemas", "OneOfNoMatch")>>, r.cache, context.path)
        ELSE IF r.valid_count = 1 THEN Outcome(<<>>, r.cache, context.path)
        ELSE Outcome(<<NewError(Build(context.path), "Value matches " \o ToString(r.valid_count) \o " oneOf schemas, expected exactly 1", "OneOfMultipleMatches")>>, r.cache, context.path)

\* validate_all_of: the loop over the branches, from position i on
AllOfBranches(value, schemas, i, context, cache, all_errors) ==
    IF i > Len(schemas) THEN Outcome(all_errors, cache, context.path)
    ELSE IF ~ShouldContinue(context, Len(all_errors)) THEN Outcome(all_errors, cache, context.path)
    ELSE LET r == ValidateValue(value, schemas[i], BranchContext(context), cache)
         IN  AllOfBranches(value, schemas, i + 1, context, r.cache, all_errors \o Annotate(r.errors, context, "allOf", i - 1))

\* Validator::validate_all_of
ValidateAllOf(value, schemas, context, cache) == AllOfBranches(value, schemas, 1, context, cache, <<>>)

\* validate_any_of: the loop over the branches; the annotated errors it gathers
\* are dropped, and the result is empty or the single no-match error
AnyOfBranches(value, schemas, i, context, cache, all_errors) ==
    IF i > Len(schemas) THEN Outcome(<<NewError(Build(context.path), "Value does not match any anyOf schemas", "AnyOfNoMatch")>>, cache, context.path)
    ELSE LET r == ValidateValue(value, schemas[i], BranchContext(context), cache)
         IN  IF r.errors = <<>> THEN Outcome(<<>>, r.cache, context.path)
             ELSE AnyOfBranches(value, schemas, i + 1, context, r.cache, all_errors \o Annotate(r.errors, context, "anyOf", i - 1))

\* Validator::validate_any_of
ValidateAnyOf(value, schemas, context, cache) == AnyOfBranches(value, schemas, 1, context, cache, <<>>)

\* Validator::validate_value
ValidateValue(value, schema, context, cache) ==
    CASE schema.type = "string"  -> ValidateString(value, schema.min_length, schema.max_length, schema.pattern, schema.format, context, cache)
      [] schema.type = "number"  -> ValidateNumber(value, schema.min, schema.max, schema.integer, schema.multiple_of, context, cache)
      [] schema.type = "boolean" -> ValidateBoolean(value, context, cache)
      [] schema.type = "array"   -> ValidateArray(value, schema.items, schema.min_items, schema.max_items, schema.unique_items, context, cache)
      [] schema.type = "object"  -> ValidateObject(value, schema.properties, schema.required, schema.additional_properties, context, cache)
      [] schema.type = "null"    -> ValidateNull(value, context, cache)
      [] schema.type = "any"     -> Outcome(<<>>, cache, context.path)
      [] schema.type = "oneOf"   -> ValidateOneOf(value, schema.schemas, context, cache)
      [] schema.type = "allOf"   -> ValidateAllOf(value, schema.schemas, context, cache)
      [] schema.type = "anyOf"   -> ValidateAnyOf(value, schema.schemas, context, cache)

-----------------------------------------------------------------------------
(* SchemaType: compilation and the batch heuristics *)

\* The larger of two numbers
Max2(a, b) == IF a > b THEN a ELSE b

\* SchemaType::is_simple
IsSimple(schema) == schema.type \in {"string", "number", "boolean", "null", "any"}

RECURSIVE CalculateDepth(_)
RECURSIVE MaxDepthOf(_)
\* The depth of the first schema of the list only
MaxDepthOfFirst(schemas) == IF schemas = <<>> THEN 0 ELSE CalculateDepth(Head(schemas))

\* The largest depth among a list of schemas, 0 for the empty list (unwrap_or(0))
MaxDepthOf(schemas) == IF schemas = <<>> THEN 0 ELSE Max2(CalculateDepth(Head(schemas)), MaxDepthOf(Tail(schemas)))

\* The schemas of a property list
PropSchemas(properties) == [i \in DOMAIN properties |-> properties[i].schema]

\* SchemaType::calculate_depth
CalculateDepth(schema) ==
    IF schema.type = "array" THEN 1 + CalculateDepth(schema.items)
    ELSE IF schema.type = "object" THEN 1 + MaxDepthOf(PropSchemas(schema.properties))
    ELSE IF schema.type \in {"oneOf", "allOf", "anyOf"} THEN 1 + MaxDepthOf(schema.schemas)
    ELSE 0

RECURSIVE EstimateComplexity(_)
RECURSIVE SumComplexity(_)
\* The sum of the complexities of a list of schemas
SumComplexity(schemas) == IF schemas = <<>> THEN 0 ELSE EstimateComplexity(Head(schemas)) + SumComplexity(Tail(schemas))

\* SchemaType::estimate_complexity
EstimateComplexity(schema) ==
    CASE schema.type = "string"  -> 1 + (IF IsSome(schema.pattern) THEN 10 ELSE 0) + (IF IsSome(schema.format) THEN 5 ELSE 0)
      [] schema.type = "number"  -> 2
      [] schema.type \in {"boolean", "null"} -> 1
      [] schema.type = "array"   -> 5 + EstimateComplexity(schema.items)
      [] schema.type = "object"  -> 10 + SumComplexity(PropSchemas(schema.properties))
      [] schema.type = "oneOf"   -> 20 + SumComplexity(schema.schemas)
      [] schema.type = "allOf"   -> 15 + SumComplexity(schema.schemas)
      [] schema.type = "anyOf"   -> 10 + SumComplexity(schema.schemas)
      [] schema.type = "any"     -> 1

RECURSIVE HasPatterns(_)
\* SchemaType::has_patterns
HasPatterns(schema) ==
    IF schema.type = "string" THEN IsSome(schema.pattern)
    ELSE IF schema.type = "array" THEN HasPatterns(schema.items)
    ELSE IF schema.type = "object" THEN \E i \in DOMAIN schema.properties : HasPatterns(schema.properties[i].schema)
    ELSE IF schema.type \in {"oneOf", "allOf", "anyOf"} THEN \E i \in DOMAIN schema.schemas : HasPatterns(schema.schemas[i])
    ELSE FALSE

\* SchemaType::compile
Compile(schema) ==
    [schema |-> schema,
     required_fields |-> IF schema.type = "object" /\ IsSome(schema.required) THEN Unwrap(schema.required) ELSE <<>>,
     has_patterns |-> schema.type = "object" /\ \E i \in DOMAIN schema.properties : HasPatterns(schema.properties[i].schema),
     max_depth |-> CalculateDepth(schema),
     estimated_complexity |-> EstimateComplexity(schema)]

\* The orders a freshly built HashMap of n entries may iterate in: the maps
\* reorder_object_properties builds hash with new keys, so any order can result.
Orders(n) == {f \in [1..n -> 1..n] : \A i, j \in 1..n : f[i] = f[j] => i = j}

\* A reordering that keeps the simple properties only
ReorderKeepsSimpleOnly(schema) ==
    IF schema.type = "object"
    THEN {SObject(SelectSeq(schema.properties, LAMBDA prop : IsSimple(prop.schema)), schema.required, schema.additional_properties)}
    ELSE {schema}

RECURSIVE ReorderObjectProperties(_)
\* SchemaOptimizer::reorder_object_properties: the set of schemas it may return
ReorderObjectProperties(schema) ==
    IF schema.type = "object"
    THEN LET props == schema.properties
             n     == Len(props)
             alts  == [i \in 1..n |-> IF IsSimple(props[i].schema) THEN {props[i].schema} ELSE ReorderObjectProperties(props[i].schema)]
             picks == {c \in [1..n -> UNION {alts[i] : i \in 1..n}] : \A i \in 1..n : c[i] \in alts[i]}
         IN  {SObject([k \in 1..n |-> Prop(props[f[k]].name, c[f[k]])], schema.required, schema.additional_properties) : f \in Orders(n), c \in picks}
    ELSE IF schema.type = "array"
    THEN {SArray(items, schema.min_items, schema.max_items, schema.unique_items) : items \in ReorderObjectProperties(schema.items)}
    ELSE {schema}

\* SchemaOptimizer::optimize_for_batch: the set of schemas it may return
\* (a clone of a HashMap iterates in the order of the original)
OptimizeForBatch(schema, batch_size) == IF batch_size > REORDER_MIN_SIZE THEN ReorderObjectProperties(schema) ELSE {schema}

\* The number of simple schemas among the declared properties
SimpleCount(properties) == Cardinality({i \in DOMAIN properties : IsSimple(properties[i].schema)})

\* SchemaOptimizer::is_parallelizable_schema; simple / total > 0.7 in whole numbers
IsParallelizableSchema(schema) ==
    IF schema.type = "object" THEN Len(schema.properties) > 0 /\ SimpleCount(schema.properties) * 10 > Len(schema.properties) * 7
    ELSE IF schema.type = "string" THEN IsNone(schema.pattern)
    ELSE IsSimple(schema)

\* A decision by the size alone
CanParallelizeBySize(schema, data_size) == data_size > PARALLEL_MIN_SIZE

\* SchemaOptimizer::can_parallelize
CanParallelize(schema, data_size) == data_size > PARALLEL_MIN_SIZE /\ IsParallelizableSchema(schema)

-----------------------------------------------------------------------------
(* Validator *)

\* Validator::validate: the result and the pattern cache afterwards;
\* elapsed_ms is what the clock reads when a tracker is finished
Validate(value, compiled, cache, elapsed_ms) ==
    LET context == ContextNew(DefaultOptions)
        r       == ValidateValue(value, compiled.schema, context, cache)
        result  == IF r.errors = <<>>
                   THEN (IF context.options.enable_performance_tracking THEN SuccessWithStats(value, Finish(context, elapsed_ms)) ELSE Success(value))
                   ELSE (IF context.options.enable_performance_tracking THEN FailureWithStats(r.errors, Finish(context, elapsed_ms)) ELSE Failure(r.errors))
    IN  [result |-> result, cache |-> r.cache]

\* The loop body without context.path.push_index(index)
ValidateItemNoIndex(value, index, schema, options, cache, elapsed_ms) ==
    LET context == IncrementItems(ContextNew(options), 1)
        r       == ValidateValue(value, schema, context, cache)
    IN  [results |-> <<IF r.errors = <<>> THEN SuccessWithStats(value, Finish(context, elapsed_ms)) ELSE FailureWithStats(r.errors, Finish(context, elapsed_ms))>>,
         cache |-> r.cache]

\* The body of the loops of validate_sequential and validate_chunk for the
\* item at `index`: its result and the pattern cache afterwards
ValidateItem(value, index, schema, options, cache, elapsed_ms) ==
    LET context == IncrementItems([ContextNew(options) EXCEPT !.path = PushIndex(@, index)], 1)
        r       == ValidateValue(value, schema, context, cache)
    IN  [results |-> <<IF r.errors = <<>> THEN SuccessWithStats(value, Finish(context, elapsed_ms)) ELSE FailureWithStats(r.errors, Finish(context, elapsed_ms))>>,
         cache |-> r.cache]

RECURSIVE ValidateRun(_, _, _, _, _, _, _)
\* values.iter().enumerate() over positions lo..hi (1-based): the results in
\* order and the cache afterwards.  The run is split in halves, the cache
\* passing from the left half to the right one, as in the loop.
ValidateRun(values, lo, hi, schema, options, cache, elapsed_ms) ==
    IF lo > hi THEN [results |-> <<>>, cache |-> cache]
    ELSE IF lo = hi THEN ValidateItem(values[lo], lo - 1, schema, options, cache, elapsed_ms)
    ELSE LET mid   == (lo + hi) \div 2
             left  == ValidateRun(values, lo, mid, schema, options, cache, elapsed_ms)
             right == ValidateRun(values, mid + 1, hi, schema, options, left.cache, elapsed_ms)
         IN  [results |-> left.results \o right.results, cache |-> right.cache]

\* Validator::validate_sequential
ValidateSequential(values, schema, options, cache, elapsed_ms) == ValidateRun(values, 1, Len(values), schema, options, cache, elapsed_ms)

\* Validator::validate_chunk
ValidateChunk(chunk, schema, options, cache, elapsed_ms) == ValidateRun(chunk, 1, Len(chunk), schema, options, cache, elapsed_ms)

\* The smaller of two numbers
Min2(a, b) == IF a < b THEN a ELSE b

RECURSIVE ChunkLoopWholeChunks(_, _, _, _, _, _)
\* A chunk loop that stops at the last whole chunk
ChunkLoopWholeChunks(values, start, schema, options, cache, elapsed_ms) ==
    IF start + CHUNK_SIZE - 1 > Len(values) THEN [results |-> <<>>, cache |-> cache]
    ELSE LET chunk == SubSeq(values, start, start + CHUNK_SIZE - 1)
             done  == ValidateRun(chunk, 1, Len(chunk), schema, options, cache, elapsed_ms)
             rest  == ChunkLoopWholeChunks(values, start + CHUNK_SIZE, schema, options, done.cache, elapsed_ms)
         IN  [results |-> done.results \o rest.results, cache |-> rest.cache]

RECURSIVE ChunkLoop(_, _, _, _, _, _)
\* The loop of validate_parallel over values.chunks(CHUNK_SIZE), from the
\* chunk that starts at position `start` (1-based)
ChunkLoop(values, start, schema, options, cache, elapsed_ms) ==
    IF start > Len(values) THEN [results |-> <<>>, cache |-> cache]
    ELSE LET chunk == SubSeq(values, start, Min2(start + CHUNK_SIZE - 1, Len(values)))
             done  == ValidateChunk(chunk, schema, options, cache, elapsed_ms)
             rest  == ChunkLoop(values, start + CHUNK_SIZE, schema, options, done.cache, elapsed_ms)
         IN  [results |-> done.results \o rest.results, cache |-> rest.cache]

\* Validator::validate_parallel
ValidateParallel(values, schema, options, cache, elapsed_ms) == ChunkLoop(values, 1, schema, options, cache, elapsed_ms)

\* Validator::validate_many, given the schema optimize_for_batch returned;
\* mode names the branch taken
ValidateMany(values, optimized_schema, cache, elapsed_ms) ==
    IF CanParallelize(optimized_schema, Len(values))
    THEN [mode |-> "validate_parallel"] @@ ValidateParallel(values, optimized_schema, BatchOptions, cache, elapsed_ms)
    ELSE [mode |-> "validate_sequential"] @@ ValidateSequential(values, optimized_schema, BatchOptions, cache, elapsed_ms)

-----------------------------------------------------------------------------
(* The schemas and the inputs of the model *)

\* A text pattern that compiles, one that does not, and their uses
PatternA == "^a+$"

PatternB == "^b"

BadPattern == "("

\* The schemas a validator is constructed with
Schemas ==
    { SString(Some(1), Some(2), Some(PatternA), None),
      SString(None, Some(1), Some(BadPattern), None),
      SNumber(Some(0), Some(2), TRUE, None),
      SObject(<<Prop("name", SString(Some(1), None, Some(PatternA), None)), Prop("tag", SString(None, None, Some(PatternB), Some("json-pointer")))>>, Some(<<"name">>), FALSE),
      SArray(SString(None, Some(1), Some(PatternB), None), Some(1), None, TRUE),
      SOneOf(<<SString(None, None, Some(PatternA), None), SString(None, Some(1), None, None), SNumber(None, None, FALSE, None)>>),
      SAllOf(<<SString(None, None, Some(PatternA), None), SString(Some(2), None, Some(BadPattern), None)>>),
      SAnyOf(<<SString(None, None, Some(PatternB), None), SNull>>) }

\* The values handed to validate, and the pool validate_many draws its lists from
Values ==
    << JStr(<<"a">>), JObj(<<Entry("name", JStr(<<"a">>)), Entry("tag", JStr(<<"b">>))>>),
       JStr(<<"b">>), JStr(<<"a", "é", "a">>), JInt(1), JNull,
       JObj(<<Entry("tag", JStr(<<"/">>)), Entry("x", JNull)>>),
       JArr(<<JStr(<<"b">>), JStr(<<"b">>)>>) >>

\* The list of n values that starts at position `seed` of the pool and cycles
BatchOf(pool, n, seed) == [i \in 1..n |-> pool[((seed + i - 1) % Len(pool)) + 1]]

\* The errors add_error is called with
AddableErrors == {NewError(<<"name">>, "Required", "ObjectMissingProperty")}

-----------------------------------------------------------------------------
(* The validator as a state machine.  compiled_schema and regex_cache are    *)
(* the fields of the Validator a FastValidator owns and stats is the stats  *)
(* field of that FastValidator; `last` records the last call, its inputs    *)
(* and what it returned; `remembered` keeps one earlier validate call.      *)

\* The ValidationStats FastValidator::new builds
InitialStats(compiled) ==
    [compiled_complexity |-> compiled.estimated_complexity, max_depth |-> compiled.max_depth, has_patterns |-> compiled.has_patterns, regex_cache_size |-> 0]

\* FastValidator::update_stats
UpdateStats(old, cache) == [old EXCEPT !.regex_cache_size = Cardinality(DOMAIN cache)]

\* FastValidator::new for a schema of the set S
InitWith(S) ==
    /\ \E schema \in S : compiled_schema = Compile(schema)
    /\ regex_cache = EmptyCache
    /\ stats = InitialStats(compiled_schema)
    /\ last = [op |-> "new"]
    /\ remembered = None

\* FastValidator::validate (Validator::validate, then update_stats); `keep` remembers it if no call is remembered,
\* and `repeat` tells that the remembered call validated the same value
DoValidate(value, elapsed_ms, keep) ==
    LET r == Validate(value, compiled_schema, regex_cache, elapsed_ms)
    IN  /\ regex_cache' = r.cache
        /\ last' = [op |-> "validate", value |-> value, result |-> r.result, repeat |-> IsSome(remembered) /\ Unwrap(remembered).value = value]
        /\ remembered' = IF keep /\ IsNone(remembered) THEN Some([value |-> value, errors |-> r.result.errors]) ELSE remembered
        /\ stats' = UpdateStats(stats, r.cache)
        /\ UNCHANGED compiled_schema

\* FastValidator::validate_many (Validator::validate_many, then update_stats)
DoValidateMany(values, elapsed_ms) ==
    \E optimized_schema \in OptimizeForBatch(compiled_schema.schema, Len(values)) :
        LET r == ValidateMany(values, optimized_schema, regex_cache, elapsed_ms)
        IN  /\ regex_cache' = r.cache
            /\ last' = [op |-> "validate_many", values |-> values, results |-> r.results, optimized_schema |-> optimized_schema, mode |-> r.mode]
            /\ stats' = UpdateStats(stats, r.cache)
            /\ UNCHANGED <<compiled_schema, remembered>>

\* FastValidator::reset_caches
ResetCaches ==
    /\ regex_cache' = EmptyCache
    /\ last' = [op |-> "reset_caches"]
    /\ UNCHANGED <<compiled_schema, stats, remembered>>

\* ValidationResult::add_error on the result of the last validate call, or
\* on a result add_error already changed
AddError(error) ==
    /\ last.op \in {"validate", "add_error"}
    /\ (last.op = "add_error" => last.added < MaxAdded)
    /\ last' = [op |-> "add_error", result |-> AddErrorTo(last.result, error), added |-> IF last.op = "add_error" THEN last.added + 1 ELSE 1]
    /\ UNCHANGED <<compiled_schema, regex_cache, stats, remembered>>

\* ValidationResult::add_error on an element validate_many returned
AddErrorToElement(i, error) ==
    /\ last.op = "validate_many"
    /\ i \in DOMAIN last.results
    /\ last' = [op |-> "add_error", result |-> AddErrorTo(last.results[i], error), added |-> 1]
    /\ UNCHANGED <<compiled_schema, regex_cache, stats, remembered>>

Init == InitWith(Schemas)

ValidateStep == \E i \in DOMAIN Values, elapsed_ms \in 0..MaxElapsedMs, keep \in BOOLEAN : DoValidate(Values[i], elapsed_ms, keep)

ValidateManyStep == \E n \in 0..MaxSmallBatch, seed \in 0..MaxSeed, elapsed_ms \in 0..MaxElapsedMs : DoValidateMany(BatchOf(Values, n, seed), elapsed_ms)

AddErrorStep == \E error \in AddableErrors : AddError(error)

AddErrorToElementStep == \E i \in 1..MaxSmallBatch, error \in AddableErrors : AddErrorToElement(i, error)

Next == ValidateStep \/ ValidateManyStep \/ ResetCaches \/ AddErrorStep \/ AddErrorToElementStep

Spec == Init /\ [][Next]_vars

-----------------------------------------------------------------------------
(* Claims about the result model and the validator as a whole *)

\* success <=> errors.is_empty() <=> data.is_some()
WellFormed(result) == (result.success <=> result.errors = <<>>) /\ (result.errors = <<>> <=> IsSome(result.data))

\* C1: every result validate returns, every element validate_many returns and
\* every result add_error made of them has success iff no errors iff data.
C1_ResultInvariant ==
    /\ last.op \in {"validate", "add_error"} => WellFormed(last.result)
    /\ last.op = "validate_many" => \A i \in DOMAIN last.results : WellFormed(last.results[i])

\* add_error has been called on a result that was a success
C1_Witness == last.op = "add_error" /\ last.added = 1 /\ Len(last.result.errors) = 1

\* C4: a validate call on a value an earlier validate call of the same
\* validator was given returns the error list the earlier call returned,
\* whatever calls came between the two.
C4_Deterministic == (last.op = "validate" /\ last.repeat) => last.result.errors = Unwrap(remembered).errors

\* A repeated call whose pattern check ran against a cached regex
C4_Witness ==
    /\ last.op = "validate" /\ last.repeat
    /\ DOMAIN regex_cache # {}
    /\ \E i \in DOMAIN last.result.errors : last.result.errors[i].code = "StringPatternMismatch"

-----------------------------------------------------------------------------
(* Merging: results are collected from the validator and from the            *)
(* constructors of ValidationResult, and ValidationResult::merge folds them. *)

\* The schema of the validator whose results are merged
MergeSchemas == { SString(Some(1), Some(2), Some(PatternA), None) }

\* The values whose results are merged: two that pass, one that fails with
\* one error and one that fails with two
MergeValues == << JStr(<<"a">>), JStr(<<"b">>), JStr(<<"a", "a">>), JStr(<<>>) >>

\* The list of results collected so far
Collected == IF last.op = "collect" THEN last.results ELSE <<>>

\* The result of a validate call joins the list
CollectValidate(value) ==
    LET r == Validate(value, compiled_schema, regex_cache, 0)
    IN  /\ last.op \in {"new", "collect"}
        /\ Len(Collected) < MaxMerge
        /\ regex_cache' = r.cache
        /\ last' = [op |-> "collect", results |-> Append(Collected, r.result)]
        /\ stats' = UpdateStats(stats, r.cache)
        /\ UNCHANGED <<compiled_schema, remembered>>

\* The results of a validate_many call join the list
CollectMany(values, elapsed_ms) ==
    \E optimized_schema \in OptimizeForBatch(compiled_schema.schema, Len(values)) :
        LET r == ValidateMany(values, optimized_schema, regex_cache, elapsed_ms)
        IN  /\ last.op \in {"new", "collect"}
            /\ Len(Collected) + Len(values) <= MaxMerge
            /\ regex_cache' = r.cache
            /\ last' = [op |-> "collect", results |-> Collected \o r.results]
            /\ stats' = UpdateStats(stats, r.cache)
            /\ UNCHANGED <<compiled_schema, remembered>>

\* A result built by success_with_stats or failure_with_stats, with the stats
\* of a tracker that counted `count` items, joins the list
CollectWithStats(value, count, elapsed_ms) ==
    LET r     == Validate(value, compiled_schema, regex_cache, 0)
        tracked == Finish(IncrementItems(ContextNew(BatchOptions), count), elapsed_ms)
    IN  /\ last.op \in {"new", "collect"}
        /\ Len(Collected) < MaxMerge
        /\ regex_cache' = r.cache
        /\ last' = [op |-> "collect", results |-> Append(Collected, IF r.result.success THEN SuccessWithStats(value, tracked) ELSE FailureWithStats(r.result.errors, tracked))]
        /\ stats' = UpdateStats(stats, r.cache)
        /\ UNCHANGED <<compiled_schema, remembered>>

\* ValidationResult::merge of the list
DoMerge ==
    /\ last.op \in {"new", "collect"}
    /\ last' = [op |-> "merge", inputs |-> Collected, result |-> Merge(Collected)]
    /\ UNCHANGED <<compiled_schema, regex_cache, stats, remembered>>

InitMerge == InitWith(MergeSchemas)

CollectValidateStep == \E i \in DOMAIN MergeValues : CollectValidate(MergeValues[i])

CollectManyStep == \E n \in 1..MaxSmallBatch, seed \in 0..MaxSeed, elapsed_ms \in 0..MaxElapsedMs : CollectMany(BatchOf(MergeValues, n, seed), elapsed_ms)

CollectWithStatsStep == \E i \in DOMAIN MergeValues, count \in {0, MaxItems}, elapsed_ms \in {0, MaxElapsedMs} : CollectWithStats(MergeValues[i], count, elapsed_ms)

NextMerge == CollectValidateStep \/ CollectManyStep \/ CollectWithStatsStep \/ DoMerge

SpecMerge == InitMerge /\ [][NextMerge]_vars

\* The positions of the inputs of the last merge
Inputs == IF last.op = "merge" THEN last.inputs ELSE <<>>

\* The errors of the failing inputs, in input order
FailingErrors == Concat([i \in DOMAIN Inputs |-> IF Inputs[i].success THEN <<>> ELSE Inputs[i].errors])

\* C2: merge of a non-empty list: a success carrying the first input's data
\* when every input succeeded, otherwise a failure without data whose errors
\* are those of the failing inputs, concatenated in input order.
C2_MergeReference ==
    (last.op = "merge" /\ Inputs # <<>>) =>
        IF \A i \in DOMAIN Inputs : Inputs[i].success
        THEN last.result.success /\ last.result.errors = <<>> /\ last.result.data = Inputs[1].data
        ELSE ~last.result.success /\ last.result.data = None /\ last.result.errors = FailingErrors

\* A merge of three inputs: a failure, a success and another failure
C2_Witness ==
    /\ last.op = "merge" /\ Len(Inputs) = 3
    /\ ~Inputs[1].success /\ Inputs[2].success /\ ~Inputs[3].success
    /\ Inputs[1].errors # Inputs[3].errors
    /\ Len(last.result.errors) = 3

\* The inputs of the last merge that carry stats
WithPerformance == {i \in DOMAIN Inputs : IsSome(Inputs[i].performance)}

RECURSIVE SumOver(_, _)
\* The sum of f over the positions of the set
SumOver(positions, f) == IF positions = {} THEN 0 ELSE LET i == CHOOSE j \in positions : TRUE IN f[i] + SumOver(positions \ {i}, f)

\* C3: the merged result carries stats whenever some input does, and its time
\* and item count are the sums over the inputs that carry stats.
C3_StatsSummed ==
    (last.op = "merge" /\ WithPerformance # {}) =>
        /\ IsSome(last.result.performance)
        /\ Unwrap(last.result.performance).validation_time_ms = SumOver(WithPerformance, [i \in WithPerformance |-> Unwrap(Inputs[i].performance).validation_time_ms])
        /\ Unwrap(last.result.performance).items_validated = SumOver(WithPerformance, [i \in WithPerformance |-> Unwrap(Inputs[i].performance).items_validated])

-----------------------------------------------------------------------------
(* Batches: validate_many on lists below, at and above the sizes at which it *)
(* changes its way of working, next to validate on the same values.          *)

\* The schemas of the validators that run batches: a string schema the
\* chunked path accepts, one with a pattern and a combinator (sequential at
\* every size) and an object schema of two simple properties
BatchSchemas ==
    { SString(Some(1), Some(2), None, None),
      SString(Some(1), None, Some(PatternA), None),
      SAllOf(<<SString(Some(1), None, None, None), SString(None, Some(1), None, None)>>),
      SObject(<<Prop("name", SString(Some(1), None, None, None)), Prop("age", SNumber(Some(0), None, FALSE, None))>>, Some(<<"name">>), TRUE) }

\* The pool the lists are drawn from
BatchValues ==
    << JStr(<<"a">>), JNull, JStr(<<>>),
       JObj(<<Entry("name", JStr(<<"a">>)), Entry("age", JInt(1))>>),
       JObj(<<Entry("name", JStr(<<>>)), Entry("age", JInt(-1))>>),
       JObj(<<Entry("age", JInt(1))>>) >>

\* The lengths around the parallel threshold and around the chunk size
LargeLengths == ((PARALLEL_MIN_SIZE - 1)..(PARALLEL_MIN_SIZE + MaxBeyond)) \cup ((CHUNK_SIZE - 1)..(CHUNK_SIZE + MaxBeyond))

InitBatch == InitWith(BatchSchemas)

SingleStep == \E i \in DOMAIN BatchValues : DoValidate(BatchValues[i], 0, FALSE)

SmallBatchStep == \E n \in 0..MaxSmallBatch, seed \in 0..MaxSeed, elapsed_ms \in 0..MaxElapsedMs : DoValidateMany(BatchOf(BatchValues, n, seed), elapsed_ms)

\* A long list, as the call that follows construction, validate or reset_caches
LargeBatchStep ==
    /\ last.op \in {"new", "validate", "reset_caches"}
    /\ \E n \in LargeLengths, seed \in 0..MaxSeed : DoValidateMany(BatchOf(BatchValues, n, seed), MaxElapsedMs)

NextBatch == SingleStep \/ SmallBatchStep \/ LargeBatchStep \/ ResetCaches

SpecBatch == InitBatch /\ [][NextBatch]_vars

\* What validate returns for the value alone
Alone(value) == Validate(value, compiled_schema, EmptyCache, 0).result

\* C6: validate_many returns one result per input, and the success flag of
\* result i is the success flag of validating values[i] alone.
C6_OnePerInput ==
    last.op = "validate_many" =>
        /\ Len(last.results) = Len(last.values)
        /\ \A i \in DOMAIN last.values : last.results[i].success = Alone(last.values[i]).success

\* A chunked run over one value more than a chunk holds, whose last value fails
C6_Witness ==
    /\ last.op = "validate_many" /\ Len(last.values) = CHUNK_SIZE + 1
    /\ CanParallelize(last.optimized_schema, Len(last.values))
    /\ ~last.results[CHUNK_SIZE + 1].success /\ last.results[CHUNK_SIZE].success

\* The errors without their paths
Pathless(errors) == [k \in DOMAIN errors |-> [errors[k] EXCEPT !.path = <<>>]]

\* How often e occurs in the list
Occurrences(errors, e) == Cardinality({k \in DOMAIN errors : errors[k] = e})

\* The two lists hold the same elements, each as often in one as in the other
SameBag(a, b) == Len(a) = Len(b) /\ \A k \in DOMAIN a : Occurrences(a, a[k]) = Occurrences(b, a[k])

\* The index validate_many gives the value at position i (from 1) of the list:
\* its position counted from 0, within its chunk on the chunked path
IndexInRun(i) == IF CanParallelize(last.optimized_schema, Len(last.values)) THEN (i - 1) % CHUNK_SIZE ELSE i - 1

\* The statement C5 makes: element i of validate_many equals validate of
\* values[i] in success, data and the whole error list, paths included.
C5_BatchEqualsSingle ==
    last.op = "validate_many" =>
        \A i \in DOMAIN last.results :
            /\ last.results[i].success = Alone(last.values[i]).success
            /\ last.results[i].data = Alone(last.values[i]).data
            /\ last.results[i].errors = Alone(last.values[i]).errors

\* C5: element i of validate_many has the success flag and the data of
\* validate of values[i]; its errors are those of validate apart from their
\* paths, in the same order for lists of at most 1000 values and in some
\* order for longer ones; every path of the batch starts with the index
\* segment of the value.
C5_BatchMatchesSingle ==
    last.op = "validate_many" =>
        \A i \in DOMAIN last.results :
            LET batch == last.results[i]
                alone == Alone(last.values[i])
            IN  /\ batch.success = alone.success
                /\ batch.data = alone.data
                /\ SameBag(Pathless(batch.errors), Pathless(alone.errors))
                /\ Len(last.values) <= REORDER_MIN_SIZE => Pathless(batch.errors) = Pathless(alone.errors)
                /\ \A k \in DOMAIN batch.errors : batch.errors[k].path # <<>> /\ batch.errors[k].path[1] = IndexSegment(IndexInRun(i))

\* A chunked run over more than 1000 values in which the second chunk's
\* value fails with its errors in another order than validate reports them
C5_Witness ==
    /\ last.op = "validate_many" /\ Len(last.values) > CHUNK_SIZE
    /\ CanParallelize(last.optimized_schema, Len(last.values))
    /\ Len(last.results[CHUNK_SIZE + 1].errors) = 2
    /\ Pathless(last.results[CHUNK_SIZE + 1].errors) # Pathless(Alone(last.values[CHUNK_SIZE + 1]).errors)
    /\ last.results[CHUNK_SIZE + 1].errors[1].path[1] = IndexSegment(0)

-----------------------------------------------------------------------------
(* String schemas: every pair of optional length bounds, no pattern, no format *)

\* An optional bound up to MaxBound
OptionalBounds == {None} \cup {Some(b) : b \in 0..MaxBound}

\* The string schemas without pattern and format
StringSchemas == {SString(min_length, max_length, None, None) : min_length \in OptionalBounds, max_length \in OptionalBounds}

\* The characters of the texts: one of one byte and one of two bytes
Chars == {"a", "é"}

\* The texts of at most MaxLen characters, and two values that are no text
StringValues == {JStr(chars) : chars \in UNION {[1..k -> Chars] : k \in 0..MaxLen}} \cup {JNull, JInt(1)}

InitString == InitWith(StringSchemas)

StringValidateStep == \E value \in StringValues : DoValidate(value, 0, FALSE)

StringBatchStep == \E value \in StringValues, elapsed_ms \in 0..MaxElapsedMs : DoValidateMany(<<value>>, elapsed_ms)

NextString == StringValidateStep \/ StringBatchStep

SpecString == InitString /\ [][NextString]_vars

\* How many errors of the list carry the code
CodeCount(errors, code) == Cardinality({k \in DOMAIN errors : errors[k].code = code})

\* 1 if the condition holds and 0 if not
Indicator(condition) == IF condition THEN 1 ELSE 0

\* C7: under a string schema without pattern and format a text of L code
\* points yields one StringTooShort error iff L < min_length, one
\* StringTooLong error iff L > max_length and no other error, and with no
\* bound violated a success carrying the value.
C7_LengthErrorsNameBound ==
    (last.op = "validate" /\ IsStr(last.value)) =>
        LET schema == compiled_schema.schema
            L      == CharCount(last.value.chars)
            short  == IsSome(schema.min_length) /\ L < Unwrap(schema.min_length)
            long   == IsSome(schema.max_length) /\ L > Unwrap(schema.max_length)
        IN  /\ CodeCount(last.result.errors, "StringTooShort") = Indicator(short)
            /\ CodeCount(last.result.errors, "StringTooLong") = Indicator(long)
            /\ Len(last.result.errors) = Indicator(short) + Indicator(long)
            /\ (~short /\ ~long) => (last.result.success /\ last.result.data = Some(last.value))

-----------------------------------------------------------------------------
(* Number schemas: every combination of the four checks.  Bounds, divisors   *)
(* and values are counted in units of 1 / Scale.                             *)

\* The divisors: none, a half and one
Divisors == {None, Some(1), Some(Scale)}

\* The number schemas
NumberSchemas == {SNumber(min, max, integer, multiple_of) : min \in OptionalBounds, max \in OptionalBounds, integer \in BOOLEAN, multiple_of \in Divisors}

\* The numbers from -MaxNum / Scale to MaxNum / Scale, an integer literal and
\* two values that are no number
NumberValues == {JFloat(h) : h \in (-MaxNum)..MaxNum} \cup {JInt(MaxNum), JNull, JStr(<<"a">>)}

InitNumber == InitWith(NumberSchemas)

NumberValidateStep == \E value \in NumberValues : DoValidate(value, 0, FALSE)

NumberBatchStep == \E value \in NumberValues, elapsed_ms \in 0..MaxElapsedMs : DoValidateMany(<<value>>, elapsed_ms)

NextNumber == NumberValidateStep \/ NumberBatchStep

SpecNumber == InitNumber /\ [][NextNumber]_vars

\* C8: under a number schema a number n yields NumberNotInteger iff integer
\* is set and n has a fractional part, NumberTooSmall iff n < min,
\* NumberTooLarge iff n > max, NumberNotMultipleOf iff n is no multiple of
\* multiple_of, one error per violated check and no other; a value that is
\* no number yields exactly one InvalidType error.
C8_IndependentChecks ==
    last.op = "validate" =>
        LET schema   == compiled_schema.schema
            n        == last.value.n
            fraction == schema.integer /\ n % Scale # 0
            small    == IsSome(schema.min) /\ n < Unwrap(schema.min)
            large    == IsSome(schema.max) /\ n > Unwrap(schema.max)
            uneven   == IsSome(schema.multiple_of) /\ n % Unwrap(schema.multiple_of) # 0
        IN  IF IsNum(last.value)
            THEN /\ CodeCount(last.result.errors, "NumberNotInteger") = Indicator(fraction)
                 /\ CodeCount(last.result.errors, "NumberTooSmall") = Indicator(small)
                 /\ CodeCount(last.result.errors, "NumberTooLarge") = Indicator(large)
                 /\ CodeCount(last.result.errors, "NumberNotMultipleOf") = Indicator(uneven)
                 /\ Len(last.result.errors) = Indicator(fraction) + Indicator(small) + Indicator(large) + Indicator(uneven)
            ELSE Len(last.result.errors) = 1 /\ last.result.errors[1].code = "InvalidType"

-----------------------------------------------------------------------------
(* Object schemas: declared properties, required lists and the              *)
(* additional_properties flag in every combination                           *)

\* The declared properties: none, one, two, and one that is itself an object
\* with a required name
PropertyLists ==
    { <<>>,
      <<Prop("a", SString(Some(1), None, None, None))>>,
      <<Prop("b", SNumber(None, None, TRUE, None)), Prop("a", SString(Some(1), None, None, None))>>,
      <<Prop("a", SString(Some(1), None, None, None)), Prop("o", SObject(<<Prop("x", SString(None, None, None, None))>>, Some(<<"x">>), TRUE))>> }

\* The names a required list is made of: a declared and an undeclared one
RequiredNames == {"a", "c"}

\* No required list, and every list of at most MaxRequired names
RequiredLists == {None} \cup {Some(names) : names \in UNION {[1..k -> RequiredNames] : k \in 0..MaxRequired}}

\* The object schemas
ObjectSchemas == {SObject(properties, required, additional_properties) : properties \in PropertyLists, required \in RequiredLists, additional_properties \in BOOLEAN}

\* The values: objects with and without the declared, the required and
\* further keys, and a value that is no object
ObjectValues ==
    { JObj(<<>>),
      JObj(<<Entry("a", JStr(<<>>))>>),
      JObj(<<Entry("a", JStr(<<"x">>))>>),
      JObj(<<Entry("c", JNull)>>),
      JObj(<<Entry("a", JStr(<<>>)), Entry("c", JNull), Entry("d", JNull)>>),
      JObj(<<Entry("a", JStr(<<"x">>)), Entry("b", JFloat(1))>>),
      JObj(<<Entry("o", JObj(<<>>))>>),
      JObj(<<Entry("d", JNull), Entry("a", JStr(<<>>)), Entry("o", JObj(<<>>))>>),
      JNull }

InitObject == InitWith(ObjectSchemas)

ObjectValidateStep == \E value \in ObjectValues : DoValidate(value, 0, FALSE)

ObjectBatchStep == \E value \in ObjectValues, elapsed_ms \in 0..MaxElapsedMs : DoValidateMany(<<value>>, elapsed_ms)

NextObject == ObjectValidateStep \/ ObjectBatchStep

SpecObject == InitObject /\ [][NextObject]_vars

\* The required list of the schema, empty if there is none
RequiredOf(schema) == IF IsSome(schema.required) THEN Unwrap(schema.required) ELSE <<>>

\* The positions of the error list that report `name` as missing from the
\* validated object itself
MissingAt(errors, name) == {k \in DOMAIN errors : errors[k].code = "ObjectMissingProperty" /\ errors[k].path = <<".", name>>}

\* The positions of the errors that report a name missing from the object itself
MissingPositions(errors) == {k \in DOMAIN errors : errors[k].code = "ObjectMissingProperty" /\ Len(errors[k].path) = 2 /\ errors[k].path[1] = "."}

\* The statement C9 makes: exactly one ObjectMissingProperty error for each
\* name of the required list that the object lacks, none for the others.
C9_OneErrorPerName ==
    (last.op = "validate" /\ IsObj(last.value)) =>
        \A name \in RequiredNames :
            Cardinality(MissingAt(last.result.errors, name)) = Indicator(name \in Range(RequiredOf(compiled_schema.schema)) /\ ~ContainsKey(last.value, name))

\* C9: the error list holds one ObjectMissingProperty error for each entry
\* of the required list whose name the object lacks (a name listed twice is
\* reported twice), none for a name that is present, whether the name is a
\* declared property or not, and these errors precede every other error.
C9_OneErrorPerEntry ==
    (last.op = "validate" /\ IsObj(last.value)) =>
        LET required == RequiredOf(compiled_schema.schema)
            errors   == last.result.errors
        IN  /\ \A name \in RequiredNames :
                   Cardinality(MissingAt(errors, name)) = IF ContainsKey(last.value, name) THEN 0 ELSE Cardinality({k \in DOMAIN required : required[k] = name})
            /\ \A k \in MissingPositions(errors) : \A j \in 1..(k - 1) : j \in MissingPositions(errors)

\* An undeclared name is required twice and missing, it is reported twice,
\* and the error of a declared property that is present follows
C9_Witness ==
    /\ last.op = "validate" /\ IsObj(last.value)
    /\ Cardinality(MissingAt(last.result.errors, "c")) = 2
    /\ Len(last.result.errors) > 2
    /\ last.result.errors[3].code = "StringTooShort"

\* The errors validating the value of the declared property at position i
\* against its sub-schema yields, under the path of the property
PropertyErrors(value, properties, i) == ValidateValue(Get(value, properties[i].name), properties[i].schema, [ContextNew(DefaultOptions) EXCEPT !.path = <<properties[i].name>>], EmptyCache).errors

\* The positions of the errors that reject `key` as an additional property
AdditionalAt(errors, key) == {k \in DOMAIN errors : errors[k].code = "ObjectAdditionalProperty" /\ errors[k].path = <<".", key>>}

\* C10: the errors of every declared property that is present are in the
\* list, and a key that is no declared property is rejected by exactly one
\* ObjectAdditionalProperty error if additional_properties is false and by
\* none if it is true.
C10_PropertiesAndAdditional ==
    (last.op = "validate" /\ IsObj(last.value)) =>
        LET schema == compiled_schema.schema
            errors == last.result.errors
        IN  /\ \A i \in DOMAIN schema.properties :
                   ContainsKey(last.value, schema.properties[i].name) =>
                       LET sub == PropertyErrors(last.value, schema.properties, i)
                       IN  \A k \in DOMAIN sub : Occurrences(errors, sub[k]) >= Occurrences(sub, sub[k])
            /\ \A key \in Range(Keys(last.value)) :
                   Cardinality(AdditionalAt(errors, key)) = Indicator(~HasProp(schema.properties, key) /\ ~schema.additional_properties)
            /\ CodeCount(errors, "ObjectAdditionalProperty") = Cardinality({key \in Range(Keys(last.value)) : ~HasProp(schema.properties, key) /\ ~schema.additional_properties})

\* Additional properties are forbidden, two undeclared keys are rejected and
\* a declared property that is present fails
C10_Witness ==
    /\ last.op = "validate" /\ IsObj(last.value)
    /\ ~compiled_schema.schema.additional_properties
    /\ CodeCount(last.result.errors, "ObjectAdditionalProperty") = 2
    /\ CodeCount(last.result.errors, "StringTooShort") = 1

-----------------------------------------------------------------------------
(* Array schemas: every pair of optional length bounds, with and without     *)
(* unique_items, over items that are and are not checked themselves          *)

\* The item schema: non-negative integers
ItemSchema == SNumber(Some(0), None, TRUE, None)

\* The array schemas: no, a small and a large lower bound, no and a small
\* upper bound (the lower one may exceed the upper one)
ArraySchemas == {SArray(ItemSchema, min_items, max_items, unique_items) : min_items \in {None, Some(1), Some(MaxBound)}, max_items \in {None, Some(1)}, unique_items \in BOOLEAN}

\* The items of the arrays: the integer 1, the float 1.0 and the two largest
\* integers a JSON number of 64 bits holds
ArrayItems == {JInt(1), JFloat(Scale), JUint(0), JUint(1)}

\* The arrays of at most MaxLen items, and a value that is no array
ArrayValues == {JArr(items) : items \in UNION {[1..k -> ArrayItems] : k \in 0..MaxLen}} \cup {JNull}

InitArray == InitWith(ArraySchemas)

ArrayValidateStep == \E value \in ArrayValues : DoValidate(value, 0, FALSE)

NextArray == ArrayValidateStep

SpecArray == InitArray /\ [][NextArray]_vars

\* Two items of the array are equal
HasEqualItems(items) == \E i, j \in DOMAIN items : i # j /\ items[i] = items[j]

\* C11: an array of n items yields ArrayTooShort iff n < min_items and
\* ArrayTooLong iff n > max_items; with unique_items set it yields exactly
\* one ArrayNotUnique error iff two items are equal and none otherwise, and
\* the length errors stay in the list next to it.
C11_ArrayShape ==
    (last.op = "validate" /\ IsArr(last.value)) =>
        LET schema == compiled_schema.schema
            n      == Len(last.value.items)
        IN  /\ CodeCount(last.result.errors, "ArrayTooShort") = Indicator(IsSome(schema.min_items) /\ n < Unwrap(schema.min_items))
            /\ CodeCount(last.result.errors, "ArrayTooLong") = Indicator(IsSome(schema.max_items) /\ n > Unwrap(schema.max_items))
            /\ CodeCount(last.result.errors, "ArrayNotUnique") = Indicator(schema.unique_items /\ HasEqualItems(last.value.items))

-----------------------------------------------------------------------------
(* Combinators: oneOf, allOf and anyOf over every short list of branches, at *)
(* the root, as the property p of an object, and as the schema of a batch    *)

\* The branches: two string schemas, a number schema and null
BranchSchemas == {SString(Some(1), None, None, None), SString(None, Some(1), None, None), SNumber(None, None, TRUE, None), SNull}

\* The lists of at most MaxBranches branches
BranchLists == UNION {[1..k -> BranchSchemas] : k \in 0..MaxBranches}

\* The combinators
Combinators == {SOneOf(schemas) : schemas \in BranchLists} \cup {SAllOf(schemas) : schemas \in BranchLists} \cup {SAnyOf(schemas) : schemas \in BranchLists}

\* A combinator as the root, and as the only declared property of an object
CombinatorSchemas == Combinators \cup {SObject(<<Prop("p", c)>>, None, TRUE) : c \in Combinators}

\* The values the branches tell apart
BranchValues == {JStr(<<>>), JStr(<<"a">>), JStr(<<"a", "a">>), JInt(1), JFloat(1), JNull}

\* The values, and the objects that hold them as p
CombinatorValues == BranchValues \cup {JObj(<<Entry("p", v)>>) : v \in BranchValues}

InitCombinator == InitWith(CombinatorSchemas)

CombinatorValidateStep == \E value \in CombinatorValues : DoValidate(value, 0, FALSE)

CombinatorBatchStep == \E value \in BranchValues : DoValidateMany(<<value>>, MaxElapsedMs)

NextCombinator == CombinatorValidateStep \/ CombinatorBatchStep

SpecCombinator == InitCombinator /\ [][NextCombinator]_vars

\* The combinator the last call ran, the value it ran on, the path it is
\* located at and the errors it returned: at the root of validate, at the
\* index of a batch of one, or at the property p of an object
CombinatorRuns ==
    LET schema == compiled_schema.schema
    IN  IF last.op = "validate" /\ schema.type \in {"oneOf", "allOf", "anyOf"}
        THEN {[schema |-> schema, value |-> last.value, path |-> <<>>, errors |-> last.result.errors]}
        ELSE IF last.op = "validate_many" /\ schema.type \in {"oneOf", "allOf", "anyOf"}
        THEN {[schema |-> schema, value |-> last.values[1], path |-> <<IndexSegment(0)>>, errors |-> last.results[1].errors]}
        ELSE IF last.op = "validate" /\ schema.type = "object" /\ IsObj(last.value)
        THEN {[schema |-> schema.properties[1].schema, value |-> Get(last.value, "p"), path |-> <<"p">>, errors |-> last.result.errors]}
        ELSE {}

\* The errors of the branch alone, with paths counted from the combinator
BranchErrors(run, i) == ValidateValue(run.value, run.schema.schemas[i], ContextNew(DefaultOptions), EmptyCache).errors

\* The branches of the run that report no error
Succeeding(run) == {i \in DOMAIN run.schema.schemas : BranchErrors(run, i) = <<>>}

\* C12: oneOf returns no error iff exactly one branch reports none, a single
\* OneOfNoMatch error at the path of the combinator iff no branch does, and a
\* single OneOfMultipleMatches error naming their number iff several do.
C12_OneOfExactlyOne ==
    \A run \in CombinatorRuns :
        run.schema.type = "oneOf" =>
            LET count == Cardinality(Succeeding(run))
            IN  /\ count = 1 => run.errors = <<>>
                /\ count = 0 => run.errors = <<NewError(Build(run.path), "Value does not match any oneOf schemas", "OneOfNoMatch")>>
                /\ count > 1 => run.errors = <<NewError(Build(run.path), "Value matches " \o ToString(count) \o " oneOf schemas, expected exactly 1", "OneOfMultipleMatches")>>

\* A oneOf at the property p of an object with two branches that both accept
C12_Witness ==
    \E run \in CombinatorRuns :
        /\ run.schema.type = "oneOf" /\ run.path = <<"p">>
        /\ Cardinality(Succeeding(run)) = 2
        /\ Len(run.errors) = 1 /\ run.errors[1].code = "OneOfMultipleMatches"

\* The errors of branch i (from 1) as C13 and C14 place them: the path of the
\* combinator, the tag of the branch, and the path below the combinator
Placed(run, kind, i) == [k \in DOMAIN BranchErrors(run, i) |-> [BranchErrors(run, i)[k] EXCEPT !.path = Build(run.path) \o <<"[" \o kind \o ":" \o ToString(i - 1) \o "]", ".">> \o @]]

\* C13: allOf returns the errors of every branch, in branch order, each
\* under the path of the combinator, the tag [allOf:i]. and the error's path
\* below the combinator, so that the path of the combinator occurs once.
C13_AllOfPaths ==
    \A run \in CombinatorRuns :
        run.schema.type = "allOf" => run.errors = Concat([i \in DOMAIN run.schema.schemas |-> Placed(run, "allOf", i)])

\* C14: anyOf returns no error iff some branch reports none; otherwise the
\* errors of all branches in branch order, tagged [anyOf:i], and no
\* AnyOfNoMatch error.
C14_AnyOfConcatenates ==
    \A run \in CombinatorRuns :
        run.schema.type = "anyOf" =>
            /\ run.errors = <<>> <=> Succeeding(run) # {}
            /\ Succeeding(run) = {} => run.errors = Concat([i \in DOMAIN run.schema.schemas |-> Placed(run, "anyOf", i)])

-----------------------------------------------------------------------------
(* Compilation: SchemaType::compile on schemas nested up to MaxNesting deep  *)

\* The schemas without children: a string without and with a pattern, a
\* number, and an object and the combinators without children
Leaves ==
    { SString(None, None, None, None), SString(None, None, Some(PatternA), None), SNumber(None, None, FALSE, None),
      SObject(<<>>, None, TRUE), SOneOf(<<>>), SAllOf(<<>>), SAnyOf(<<>>) }

\* The schemas that hold s as a child, alone or next to a string schema
Around(s) ==
    { SArray(s, None, None, FALSE),
      SObject(<<Prop("p", s)>>, None, TRUE),
      SObject(<<Prop("q", SString(None, None, None, None)), Prop("p", s)>>, None, TRUE),
      SOneOf(<<s>>), SAllOf(<<s>>), SAnyOf(<<s>>),
      SAnyOf(<<SString(None, None, None, None), s>>) }

RECURSIVE NestedSchemas(_)
\* The schemas of at most d levels around a leaf
NestedSchemas(d) == IF d = 0 THEN Leaves ELSE LET inner == NestedSchemas(d - 1) IN inner \cup UNION {Around(s) : s \in inner}

InitCompile == InitWith(NestedSchemas(MaxNesting))

\* SchemaType::compile on the schema of the validator
CompileStep ==
    /\ last.op = "new"
    /\ last' = [op |-> "compile", compiled |-> Compile(compiled_schema.schema)]
    /\ UNCHANGED <<compiled_schema, regex_cache, stats, remembered>>

NextCompile == CompileStep

SpecCompile == InitCompile /\ [][NextCompile]_vars

\* The schemas directly below a schema
ChildrenOf(schema) ==
    IF schema.type = "array" THEN {schema.items}
    ELSE IF schema.type = "object" THEN {schema.properties[i].schema : i \in DOMAIN schema.properties}
    ELSE IF schema.type \in {"oneOf", "allOf", "anyOf"} THEN Range(schema.schemas)
    ELSE {}

RECURSIVE DeclaresPattern(_)
\* Some string schema reachable from the schema declares a pattern
DeclaresPattern(schema) == (schema.type = "string" /\ IsSome(schema.pattern)) \/ \E child \in ChildrenOf(schema) : DeclaresPattern(child)

\* C15: has_patterns of the compiled schema is true iff a string schema
\* reachable from the root, the root included, declares a pattern.
C15_HasPatterns == last.op = "compile" => (last.compiled.has_patterns <=> DeclaresPattern(last.compiled.schema))

RECURSIVE NestingDepth(_)
\* 0 for a schema that cannot hold children, else 1 + the largest depth of a child
NestingDepth(schema) ==
    IF schema.type \notin {"array", "object", "oneOf", "allOf", "anyOf"} THEN 0
    ELSE LET depths == {NestingDepth(child) : child \in ChildrenOf(schema)} \cup {0}
         IN  1 + CHOOSE d \in depths : \A e \in depths : e <= d

\* C16: max_depth of the compiled schema is 0 for a scalar and 1 + the
\* largest depth of a child for an array, an object and a combinator, 1 if
\* there is no child.
C16_MaxDepth == last.op = "compile" => last.compiled.max_depth = NestingDepth(last.compiled.schema)

\* A combinator whose second branch is the deeper one has been compiled
C16_Witness ==
    /\ last.op = "compile" /\ last.compiled.schema.type = "anyOf"
    /\ Len(last.compiled.schema.schemas) = 2
    /\ last.compiled.max_depth = 1 + MaxNesting

-----------------------------------------------------------------------------
(* The pattern cache and the stats of a FastValidator over a sequence of     *)
(* validate, validate_many, reset_caches and get_stats calls                 *)

InitCache == InitWith(Schemas)

CacheValidateStep == \E i \in DOMAIN Values, keep \in BOOLEAN : DoValidate(Values[i], 0, keep)

CacheBatchStep == \E n \in 1..MaxSmallBatch, seed \in 0..(Len(Values) - 1) : DoValidateMany(BatchOf(Values, n, seed), 0)

\* FastValidator::get_memory_info
GetMemoryInfo == [regex_cache_size |-> Cardinality(DOMAIN regex_cache), estimated_complexity |-> stats.compiled_complexity, max_depth |-> stats.max_depth]

\* FastValidator::get_stats, followed by get_memory_info
GetStats ==
    /\ last' = [op |-> "get_stats", stats |-> stats, memory_info |-> GetMemoryInfo]
    /\ UNCHANGED <<compiled_schema, regex_cache, stats, remembered>>

NextCache == CacheValidateStep \/ CacheBatchStep \/ ResetCaches \/ GetStats

SpecCache == InitCache /\ [][NextCache]_vars

\* The schema accepts the value
Accepts(schema, value) == ValidateValue(value, schema, ContextNew(DefaultOptions), EmptyCache).errors = <<>>

RECURSIVE AppliedTo(_, _)
\* The patterns a validation of the value applies to a string value: that of
\* a string schema met with a string, those met in the items of an array, in
\* the declared properties an object holds and in the branches of a
\* combinator, an anyOf trying its branches up to the first that accepts
AppliedTo(schema, value) ==
    IF schema.type = "string" THEN (IF IsStr(value) /\ IsSome(schema.pattern) THEN {Unwrap(schema.pattern)} ELSE {})
    ELSE IF schema.type = "array" THEN (IF IsArr(value) THEN UNION {AppliedTo(schema.items, value.items[i]) : i \in DOMAIN value.items} ELSE {})
    ELSE IF schema.type = "object"
    THEN (IF IsObj(value)
          THEN UNION {AppliedTo(schema.properties[i].schema, Get(value, schema.properties[i].name)) : i \in {j \in DOMAIN schema.properties : ContainsKey(value, schema.properties[j].name)}}
          ELSE {})
    ELSE IF schema.type \in {"oneOf", "allOf"} THEN UNION {AppliedTo(schema.schemas[i], value) : i \in DOMAIN schema.schemas}
    ELSE IF schema.type = "anyOf"
    THEN UNION {AppliedTo(schema.schemas[i], value) : i \in {j \in DOMAIN schema.schemas : \A k \in 1..(j - 1) : ~Accepts(schema.schemas[k], value)}}
    ELSE {}

\* The patterns a call applies to string values
AppliedIn(call) ==
    IF call.op = "validate" THEN AppliedTo(compiled_schema.schema, call.value)
    ELSE IF call.op = "validate_many" THEN UNION {AppliedTo(compiled_schema.schema, call.values[i]) : i \in DOMAIN call.values}
    ELSE {}

RECURSIVE DeclaredPatterns(_)
\* The distinct patterns the string schemas of a schema declare
DeclaredPatterns(schema) ==
    (IF schema.type = "string" /\ IsSome(schema.pattern) THEN {Unwrap(schema.pattern)} ELSE {})
    \cup UNION {DeclaredPatterns(child) : child \in ChildrenOf(schema)}

\* What a validate or validate_many call does to the cache: it adds the
\* applied patterns that compile and leaves every other entry as it was
CacheGrowsByApplied ==
    last'.op \in {"validate", "validate_many"} =>
        /\ DOMAIN regex_cache' = DOMAIN regex_cache \cup {pattern \in AppliedIn(last') : IsSome(RegexNew(pattern))}
        /\ \A pattern \in DOMAIN regex_cache : regex_cache'[pattern] = regex_cache[pattern]
        /\ \A pattern \in DOMAIN regex_cache' : Some(regex_cache'[pattern]) = RegexNew(pattern)
        /\ Cardinality(DOMAIN regex_cache') <= Cardinality(DeclaredPatterns(compiled_schema.schema))

\* C17: the cache of a new validator is empty and every validate and
\* validate_many call adds exactly the syntactically valid patterns it
\* applied to a string value, each under its source string, and leaves the
\* entries it found untouched; the cache never holds more entries than the
\* schema declares distinct patterns.
C17_CacheMemoizes == (regex_cache = EmptyCache) /\ [][CacheGrowsByApplied]_vars

\* Both patterns of the object schema are cached after a validate call
C17_Witness == last.op = "validate" /\ DOMAIN regex_cache = {PatternA, PatternB}

\* The errors that report the pattern as one that does not compile
InvalidPatternErrors(errors, pattern) ==
    {k \in DOMAIN errors : errors[k].code = "StringPatternMismatch" /\ errors[k].message = "Invalid regex pattern: " \o pattern}

\* The result is a failure that carries its errors and no data
NormalFailure(result) == ~result.success /\ result.errors # <<>> /\ IsNone(result.data)

\* The string and allOf schemas report every error of their string checks
ReportsAll(schema) == schema.type \in {"string", "allOf"}

\* C18: a validator exists for a schema whose pattern does not compile;
\* every validation of a string value against it, the first and the later
\* ones, alone or in a batch, is a normal failure with exactly one
\* StringPatternMismatch error for that pattern, and the pattern is never in
\* the cache.
C18_LazyPattern ==
    /\ BadPattern \notin DOMAIN regex_cache
    /\ (last.op = "validate" /\ ReportsAll(compiled_schema.schema) /\ BadPattern \in AppliedTo(compiled_schema.schema, last.value)) =>
            /\ NormalFailure(last.result)
            /\ Cardinality(InvalidPatternErrors(last.result.errors, BadPattern)) = 1
    /\ last.op = "validate_many" /\ ReportsAll(compiled_schema.schema) =>
            \A i \in DOMAIN last.values : BadPattern \in AppliedTo(compiled_schema.schema, last.values[i]) =>
                /\ NormalFailure(last.results[i])
                /\ Cardinality(InvalidPatternErrors(last.results[i].errors, BadPattern)) = 1

\* A string is validated against the pattern that does not compile a second
\* time, after the same call was remembered
C18_Witness ==
    /\ last.op = "validate" /\ last.repeat
    /\ compiled_schema.schema.type = "string"
    /\ BadPattern \in AppliedTo(compiled_schema.schema, last.value)
    /\ Cardinality(InvalidPatternErrors(last.result.errors, BadPattern)) = 1

\* C19: the regex_cache_size get_stats reports is the number of entries the
\* pattern cache holds, and the one get_memory_info reports.
C19_StatsMatchCache ==
    last.op = "get_stats" =>
        /\ last.stats.regex_cache_size = Cardinality(DOMAIN regex_cache)
        /\ last.stats.regex_cache_size = last.memory_info.regex_cache_size

-----------------------------------------------------------------------------
(* The index validate_many roots the paths of an item at *)

\* C20: every error of element i of validate_many, sequential or chunked, has
\* a path whose first segment is the index of the value in the list handed to
\* validate_many, counted from 0.
C20_RootedAtPosition ==
    last.op = "validate_many" =>
        \A i \in DOMAIN last.results : \A k \in DOMAIN last.results[i].errors :
            /\ last.results[i].errors[k].path # <<>>
            /\ last.results[i].errors[k].path[1] = IndexSegment(i - 1)

-----------------------------------------------------------------------------
(* validate_value under every combination of early_exit and max_errors, in   *)
(* a context at the root or below the segment "o"                            *)

\* The validation options: early_exit or not, max_errors absent or up to MaxErrors
OptionSets == {[DefaultOptions EXCEPT !.early_exit = early_exit, !.max_errors = max_errors] : early_exit \in BOOLEAN, max_errors \in {None} \cup {Some(n) : n \in 0..MaxErrors}}

\* A string schema a text can break twice, and schemas that loop over items,
\* properties and branches
OptionSchemas ==
    LET text == SString(Some(2), None, Some(PatternB), None)
    IN  { text,
          SArray(text, Some(3), None, TRUE),
          SObject(<<Prop("p", text), Prop("q", SNull)>>, Some(<<"r">>), FALSE),
          SAllOf(<<text, SNull, SNumber(None, None, FALSE, None)>>),
          SOneOf(<<SArray(SNull, None, None, FALSE), SObject(<<Prop("p", SNull)>>, None, TRUE)>>),
          SArray(SObject(<<Prop("p", text)>>, None, TRUE), None, None, FALSE) }

OptionValues ==
    { JStr(<<"a">>), JStr(<<"b", "b">>), JNull,
      JArr(<<JStr(<<"a">>), JStr(<<"a">>)>>), JArr(<<JStr(<<"b", "b">>), JNull>>), JArr(<<JNull, JNull>>),
      JArr(<<JObj(<<Entry("p", JStr(<<"a">>))>>), JObj(<<Entry("p", JNull)>>)>>),
      JObj(<<Entry("p", JStr(<<"a">>)), Entry("q", JInt(1)), Entry("x", JNull)>>),
      JObj(<<Entry("p", JNull), Entry("q", JNull), Entry("r", JNull)>>) }

\* The paths of the context validate_value is called with
StartPaths == {PathNew, Push(PathNew, "o")}

InitOptions == InitWith(OptionSchemas)

\* validate_value on the schema of the validator, with a context that holds
\* the options and the path
ValidateValueStep ==
    \E value \in OptionValues, options \in OptionSets, path \in StartPaths :
        LET context == [ContextNew(options) EXCEPT !.path = path]
            r       == ValidateValue(value, compiled_schema.schema, context, regex_cache)
        IN  /\ regex_cache' = r.cache
            /\ last' = [op |-> "validate_value", value |-> value, options |-> options, path |-> path, errors |-> r.errors, path_after |-> r.path]
            /\ UNCHANGED <<compiled_schema, stats, remembered>>

NextOptions == ValidateValueStep

SpecOptions == InitOptions /\ [][NextOptions]_vars

\* The context of the last validate_value call
LastContext == [ContextNew(last.options) EXCEPT !.path = last.path]

\* The value of the last call has the kind the looping schema expects
LoopsOver(schema, value) ==
    \/ schema.type = "array" /\ IsArr(value)
    \/ schema.type = "object" /\ IsObj(value)
    \/ schema.type = "allOf"

\* The declared properties the object holds, in the order of the loop
PresentProperties(schema, value) == SelectSeq(schema.properties, LAMBDA prop : ContainsKey(value, prop.name))

\* What each child of the node reports when it is validated: the items of
\* the array, the declared properties the object holds, the branches of allOf
ChildParts(schema, value, context) ==
    IF schema.type = "array"
    THEN [i \in DOMAIN value.items |-> ValidateValue(value.items[i], schema.items, [context EXCEPT !.path = PushIndex(@, i - 1)], EmptyCache).errors]
    ELSE IF schema.type = "object"
    THEN LET present == PresentProperties(schema, value)
         IN  [i \in DOMAIN present |-> ValidateValue(Get(value, present[i].name), present[i].schema, [context EXCEPT !.path = Push(@, present[i].name)], EmptyCache).errors]
    ELSE [i \in DOMAIN schema.schemas |-> Annotate(ValidateValue(value, schema.schemas[i], BranchContext(context), EmptyCache).errors, context, "allOf", i - 1)]

\* The errors the node reports before its loop and after it
BeforeLoop(schema, value, context) ==
    IF schema.type = "array" THEN ArrayShapeErrors(value.items, schema.min_items, schema.max_items, schema.unique_items, Build(context.path))
    ELSE IF schema.type = "object" /\ IsSome(schema.required) THEN RequiredErrors(value, Unwrap(schema.required), Build(context.path))
    ELSE <<>>

AfterLoop(schema, value, context) ==
    IF schema.type = "object" /\ ~schema.additional_properties THEN AdditionalErrors(Keys(value), schema.properties, Build(context.path)) ELSE <<>>

\* No further child is validated: max_errors is reached, or early_exit is set
\* and an error exists
LoopStops(options, error_count) ==
    \/ IsSome(options.max_errors) /\ error_count >= Unwrap(options.max_errors)
    \/ options.early_exit /\ error_count > 0

RECURSIVE ValidatedWhileRunning(_, _, _, _)
\* The errors of the node when its children are validated one after the
\* other until the loop stops
ValidatedWhileRunning(parts, i, options, errors) ==
    IF i > Len(parts) \/ LoopStops(options, Len(errors)) THEN errors
    ELSE ValidatedWhileRunning(parts, i + 1, options, errors \o parts[i])

\* C21: an array, an object and an allOf validate their items, properties
\* and branches in order until the running error count of the node reaches
\* max_errors, or, with early_exit set, until an error exists, whether or not
\* max_errors is set too; the children after that report nothing.
C21_EarlyExit ==
    (last.op = "validate_value" /\ LoopsOver(compiled_schema.schema, last.value)) =>
        last.errors = ValidatedWhileRunning(ChildParts(compiled_schema.schema, last.value, LastContext), 1, last.options,
                                            BeforeLoop(compiled_schema.schema, last.value, LastContext))
                      \o AfterLoop(compiled_schema.schema, last.value, LastContext)

\* C22: with max_errors = N, N >= 1, validate_value returns at most N errors.
C22_MaxErrorsCap ==
    (last.op = "validate_value" /\ IsSome(last.options.max_errors) /\ Unwrap(last.options.max_errors) >= 1) =>
        Len(last.errors) <= Unwrap(last.options.max_errors)

\* The loops run to their end: neither early_exit nor max_errors is set
RunsToEnd(options) == ~options.early_exit /\ IsNone(options.max_errors)

\* C23: validate_value leaves the path of the context as it found it; each
\* item, property and branch is validated at the path of its parent plus its
\* own segment only, so the errors of a node are those its children report
\* when each is validated alone at that path, and the error a oneOf reports
\* after its branches failed is at the path of the oneOf.
C23_PathScoping ==
    last.op = "validate_value" =>
        /\ last.path_after = last.path
        /\ (RunsToEnd(last.options) /\ LoopsOver(compiled_schema.schema, last.value)) =>
                last.errors = BeforeLoop(compiled_schema.schema, last.value, LastContext)
                              \o Concat(ChildParts(compiled_schema.schema, last.value, LastContext))
                              \o AfterLoop(compiled_schema.schema, last.value, LastContext)
        /\ compiled_schema.schema.type = "oneOf" => \A k \in DOMAIN last.errors : last.errors[k].path = Build(last.path)

\* Below the segment "o" an array of two objects was validated and the
\* property of the second object failed after that of the first
C23_Witness ==
    /\ last.op = "validate_value" /\ last.path = Push(PathNew, "o") /\ RunsToEnd(last.options)
    /\ Len(last.errors) >= 2
    /\ last.errors[1].path = <<"o", ".", "[0]", ".", "p">>
    /\ last.errors[Len(last.errors)].path = <<"o", ".", "[1]", ".", "p">>

-----------------------------------------------------------------------------
(* SchemaOptimizer::optimize_for_batch, and validation against its result *)

\* Object schemas with simple and complex properties, nested in one another,
\* in an array and in a combinator, and a scalar schema
ReorderSchemas ==
    LET text  == SString(Some(1), None, None, None)
        inner == SObject(<<Prop("x", text), Prop("y", SArray(SNull, Some(1), None, FALSE))>>, Some(<<"x">>), FALSE)
    IN  { SObject(<<Prop("a", inner), Prop("b", text), Prop("c", SNumber(Some(0), None, FALSE, None))>>, Some(<<"b">>), FALSE),
          SArray(inner, Some(1), Some(2), TRUE),
          SOneOf(<<inner, SNull>>),
          text }

ReorderValues ==
    LET bad  == JObj(<<Entry("x", JStr(<<>>)), Entry("y", JArr(<<>>)), Entry("z", JNull)>>)
        good == JObj(<<Entry("x", JStr(<<"a">>)), Entry("y", JArr(<<JNull>>))>>)
    IN  { JObj(<<Entry("a", bad), Entry("b", JStr(<<>>)), Entry("c", JInt(-1))>>),
          JObj(<<Entry("a", good), Entry("b", JStr(<<"a">>)), Entry("c", JInt(1))>>),
          JObj(<<Entry("a", JNull), Entry("c", JNull)>>),
          JArr(<<bad, bad>>), JArr(<<good>>), bad, good, JNull, JStr(<<>>) }

InitReorder == InitWith(ReorderSchemas)

\* optimize_for_batch for a batch size at the threshold or beyond it, and the
\* validation of a value against the schema and against the optimized schema,
\* with the options of validate_many
OptimizeStep ==
    \E batch_size \in (REORDER_MIN_SIZE - 1)..(REORDER_MIN_SIZE + MaxBeyond), value \in ReorderValues :
        \E optimized \in OptimizeForBatch(compiled_schema.schema, batch_size) :
            /\ last' = [op |-> "optimize_for_batch", batch_size |-> batch_size, optimized |-> optimized, value |-> value,
                        original_errors |-> ValidateValue(value, compiled_schema.schema, ContextNew(BatchOptions), regex_cache).errors,
                        optimized_errors |-> ValidateValue(value, optimized, ContextNew(BatchOptions), regex_cache).errors]
            /\ UNCHANGED <<compiled_schema, regex_cache, stats, remembered>>

NextReorder == OptimizeStep

SpecReorder == InitReorder /\ [][NextReorder]_vars

RECURSIVE SameMapping(_, _)
\* The two schemas map the same property names to the same sub-schemas at
\* every level, with the same required lists, flags and array constraints
SameMapping(a, b) ==
    /\ a.type = b.type
    /\ IF a.type = "object"
       THEN /\ Len(a.properties) = Len(b.properties)
            /\ \A i \in DOMAIN a.properties : \E j \in DOMAIN b.properties :
                   a.properties[i].name = b.properties[j].name /\ SameMapping(a.properties[i].schema, b.properties[j].schema)
            /\ a.required = b.required
            /\ a.additional_properties = b.additional_properties
       ELSE IF a.type = "array"
       THEN a.min_items = b.min_items /\ a.max_items = b.max_items /\ a.unique_items = b.unique_items /\ SameMapping(a.items, b.items)
       ELSE a = b

\* C24: for a batch size up to 1000 and above it, the schema
\* optimize_for_batch returns maps the same names to the same sub-schemas at
\* every level, keeps required, additional_properties and the array
\* constraints, and a value validated against it yields the same set of errors.
C24_ReorderPreserves ==
    last.op = "optimize_for_batch" =>
        /\ SameMapping(compiled_schema.schema, last.optimized)
        /\ Range(last.optimized_errors) = Range(last.original_errors)
        /\ Len(last.optimized_errors) = Len(last.original_errors)

\* Above 1000 the properties came out in another order and the errors of a
\* value with them
C24_Witness ==
    /\ last.op = "optimize_for_batch" /\ last.batch_size > REORDER_MIN_SIZE
    /\ last.optimized # compiled_schema.schema
    /\ Len(last.original_errors) >= 2
    /\ last.optimized_errors # last.original_errors

-----------------------------------------------------------------------------
(* The branch validate_many takes: validate_parallel or validate_sequential *)

\* An object schema of `total` properties of which the first `simple` are scalar
ObjectWith(simple, total) == SObject([i \in 1..total |-> Prop("p" \o ToString(i), IF i <= simple THEN SNull ELSE SArray(SNull, None, None, FALSE))], None, TRUE)

\* Objects at, above and below 70% of scalar properties and without
\* property, the scalars, strings with and without pattern, an array and a
\* combinator
DecisionSchemas ==
    { ObjectWith(7, 10), ObjectWith(8, 10), ObjectWith(3, 4), ObjectWith(2, 3), ObjectWith(1, 1), ObjectWith(0, 1), ObjectWith(0, 0),
      SNumber(None, None, FALSE, None), SBoolean, SNull, SAny,
      SString(None, None, None, None), SString(None, None, Some(PatternA), None),
      SArray(SNull, None, None, FALSE), SAnyOf(<<SNull>>) }

DecisionValues == <<JNull, JStr(<<"a">>), JObj(<<Entry("p1", JInt(1))>>)>>

InitDecision == InitWith(DecisionSchemas)

\* validate_many, as the first call, over a list of a few values or of a
\* length around 100
DecisionStep ==
    /\ last.op = "new"
    /\ \E n \in (1..MaxSmallBatch) \cup ((PARALLEL_MIN_SIZE - 1)..(PARALLEL_MIN_SIZE + MaxBeyond)), seed \in 0..MaxSeed, elapsed_ms \in 0..MaxElapsedMs :
           DoValidateMany(BatchOf(DecisionValues, n, seed), elapsed_ms)

NextDecision == DecisionStep

SpecDecision == InitDecision /\ [][NextDecision]_vars

\* A string, number, boolean, null or any schema
Scalar(schema) == schema.type \in {"string", "number", "boolean", "null", "any"}

\* Strictly more than 70% of the declared properties are scalar, a schema is
\* a scalar that is no string, or a string without pattern
Parallelizable(schema) ==
    IF schema.type = "object"
    THEN 100 * Cardinality({i \in DOMAIN schema.properties : Scalar(schema.properties[i].schema)}) > 70 * Len(schema.properties)
    ELSE IF schema.type = "string" THEN IsNone(schema.pattern)
    ELSE Scalar(schema)

\* C25: validate_many takes the chunked branch exactly when the list is
\* longer than the parallel_threshold of its options and the schema is
\* parallelizable, and the sequential branch in every other case.
C25_DecisionRule ==
    last.op = "validate_many" =>
        /\ last.mode = "validate_parallel" <=> (Len(last.values) > BatchOptions.parallel_threshold /\ Parallelizable(compiled_schema.schema))
        /\ last.mode # "validate_parallel" => last.mode = "validate_sequential"

\* A list of 101 values took the chunked branch under an object schema with
\* 8 scalar properties of 10
C25_Witness ==
    /\ last.op = "validate_many" /\ last.mode = "validate_parallel"
    /\ Len(last.values) = BatchOptions.parallel_threshold + 1
    /\ compiled_schema.schema = ObjectWith(8, 10)

-----------------------------------------------------------------------------
(* BatchValidator: a Validator and a batch_size *)

RECURSIVE DatasetLoop(_, _, _, _, _, _)
\* The loop of validate_dataset over values.chunks(batch_size), from the
\* chunk that starts at position `start` (1-based): the outcomes it may have,
\* one validate_many call per chunk
DatasetLoop(values, start, batch_size, schema, cache, elapsed_ms) ==
    IF start > Len(values) THEN {[results |-> <<>>, cache |-> cache]}
    ELSE LET chunk == SubSeq(values, start, Min2(start + batch_size - 1, Len(values)))
             calls == {ValidateMany(chunk, optimized_schema, cache, elapsed_ms) : optimized_schema \in OptimizeForBatch(schema, Len(chunk))}
         IN  UNION {{[results |-> done.results \o rest.results, cache |-> rest.cache] : rest \in DatasetLoop(values, start + batch_size, batch_size, schema, done.cache, elapsed_ms)} : done \in calls}

\* BatchValidator::validate_dataset: the outcomes it may have; chunks(0)
\* panics ("chunk size must be non-zero")
ValidateDataset(values, batch_size, schema, cache, elapsed_ms) ==
    IF Len(values) <= batch_size
    THEN {[panicked |-> FALSE, results |-> r.results, cache |-> r.cache] : r \in {ValidateMany(values, optimized_schema, cache, elapsed_ms) : optimized_schema \in OptimizeForBatch(schema, Len(values))}}
    ELSE IF batch_size = 0 THEN {[panicked |-> TRUE, results |-> <<>>, cache |-> cache]}
    ELSE {[panicked |-> FALSE, results |-> r.results, cache |-> r.cache] : r \in DatasetLoop(values, 1, batch_size, schema, cache, elapsed_ms)}

InitDataset == InitWith(BatchSchemas)

\* A BatchValidator of some batch_size validates a list
ValidateDatasetStep ==
    \E batch_size \in 0..MaxBatchSize, n \in 0..MaxBatchSize, seed \in 0..MaxSeed :
        \E r \in ValidateDataset(BatchOf(BatchValues, n, seed), batch_size, compiled_schema.schema, regex_cache, MaxElapsedMs) :
            /\ regex_cache' = r.cache
            /\ last' = [op |-> "validate_dataset", values |-> BatchOf(BatchValues, n, seed), batch_size |-> batch_size, panicked |-> r.panicked, results |-> r.results]
            /\ UNCHANGED <<compiled_schema, stats, remembered>>

NextDataset == ValidateDatasetStep

SpecDataset == InitDataset /\ [][NextDataset]_vars

\* The result without its performance stats
WithoutStats(result) == [result EXCEPT !.performance = None]

\* What one validate_many call over the whole list returns; a list of the
\* model is shorter than 1000 values and the call validates it with the
\* schema as it is
WholeList(values) == ValidateMany(values, compiled_schema.schema, EmptyCache, 0).results

\* C26: validate_dataset completes for every batch_size and returns one
\* result per value, in order, each equal, performance stats aside, to the
\* result validate_many returns for it when given the whole list.
C26_DatasetMatchesMany ==
    last.op = "validate_dataset" =>
        /\ ~last.panicked
        /\ Len(last.results) = Len(last.values)
        /\ \A i \in DOMAIN last.results : WithoutStats(last.results[i]) = WithoutStats(WholeList(last.values)[i])

-----------------------------------------------------------------------------
(* The result invariant across ValidationResult::merge *)

\* C27: the merge of a list of results that each have success iff no errors
\* iff data, the empty list included, has success iff no errors iff data.
C27_MergeWellFormed ==
    (last.op = "merge" /\ \A i \in DOMAIN Inputs : WellFormed(Inputs[i])) => WellFormed(last.result)

-----------------------------------------------------------------------------
(* The paths of the errors an object reports about its keys *)

\* The error is the missing-property or the additional-property error for key
KeyErrorFor(error, key) ==
    \/ error.code = "ObjectMissingProperty" /\ error.message = "Required property '" \o key \o "' is missing"
    \/ error.code = "ObjectAdditionalProperty" /\ error.message = "Additional property '" \o key \o "' is not allowed"

\* The names the required list and the value hold
KeysInPlay(schema, value) == (IF IsSome(schema.required) THEN Range(Unwrap(schema.required)) ELSE {}) \cup Range(Keys(value))

\* C28: for an object at path P, the ObjectMissingProperty and the
\* ObjectAdditionalProperty error for key k carry the path of a declared
\* property k of that object, P extended with the segment k as build renders
\* it; at the root that is k, without a separator in front.
C28_KeyPaths ==
    (last.op = "validate_value" /\ compiled_schema.schema.type = "object" /\ IsObj(last.value)) =>
        \A i \in DOMAIN last.errors : \A key \in KeysInPlay(compiled_schema.schema, last.value) :
            KeyErrorFor(last.errors[i], key) => last.errors[i].path = Build(Push(last.path, key))

-----------------------------------------------------------------------------
(* UniqueChecker on its own: new, then a sequence of insert calls *)

\* Values of every kind, among them texts that read like a number, a
\* boolean and null, a float next to the integer of its value and two
\* integers above i64::MAX
UniqueValues ==
    { JStr(<<"1">>), JInt(1), JFloat(Scale), JStr(<<"t", "r", "u", "e">>), JBool(TRUE), JStr(<<"n", "u", "l", "l">>), JNull,
      JArr(<<JInt(1)>>), JObj(<<Entry("a", JNull)>>), JUint(0), JUint(1) }

InitUnique == InitWith({SAny})

\* UniqueChecker::new
UniqueNewStep ==
    /\ last.op = "new"
    /\ last' = [op |-> "unique", checker |-> UniqueCheckerNew, values |-> <<>>, returned |-> <<>>, len |-> UniqueLen(UniqueCheckerNew)]
    /\ UNCHANGED <<compiled_schema, regex_cache, stats, remembered>>

\* UniqueChecker::insert, followed by len
UniqueInsertStep ==
    /\ last.op = "unique"
    /\ Len(last.values) < MaxInserts
    /\ \E value \in UniqueValues :
           LET r == UniqueInsert(last.checker, value)
           IN  last' = [op |-> "unique", checker |-> r.checker, values |-> Append(last.values, value), returned |-> Append(last.returned, r.inserted), len |-> UniqueLen(r.checker)]
    /\ UNCHANGED <<compiled_schema, regex_cache, stats, remembered>>

NextUnique == UniqueNewStep \/ UniqueInsertStep

SpecUnique == InitUnique /\ [][NextUnique]_vars

\* C29: insert returns false iff an equal value was inserted earlier, values
\* of different kinds never collide, and len is the number of distinct
\* values inserted so far.
C29_UniqueChecker ==
    last.op = "unique" =>
        /\ \A i \in DOMAIN last.values : ~last.returned[i] <=> \E j \in 1..(i - 1) : last.values[j] = last.values[i]
        /\ last.len = Cardinality(Range(last.values))

-----------------------------------------------------------------------------
(* PathBuilder on its own: new, then push, push_index and pop calls, each    *)
(* followed by build                                                         *)

InitPath == InitWith({SAny})

\* The PathBuilder after a call, the calls made so far and what build returns
PathState(segments, calls) == [op |-> "path", segments |-> segments, calls |-> calls, built |-> Build(segments)]

\* PathBuilder::new
PathNewStep ==
    /\ last.op = "new"
    /\ last' = PathState(PathNew, <<>>)
    /\ UNCHANGED <<compiled_schema, regex_cache, stats, remembered>>

\* PathBuilder::push
PushStep ==
    /\ last.op = "path" /\ Len(last.calls) < MaxPathCalls
    /\ \E segment \in {"user", "name"} : last' = PathState(Push(last.segments, segment), Append(last.calls, [call |-> "push", segment |-> segment]))
    /\ UNCHANGED <<compiled_schema, regex_cache, stats, remembered>>

\* PathBuilder::push_index
PushIndexStep ==
    /\ last.op = "path" /\ Len(last.calls) < MaxPathCalls
    /\ \E index \in 0..MaxItems : last' = PathState(PushIndex(last.segments, index), Append(last.calls, [call |-> "push_index", index |-> index]))
    /\ UNCHANGED <<compiled_schema, regex_cache, stats, remembered>>

\* PathBuilder::pop
PopStep ==
    /\ last.op = "path" /\ Len(last.calls) < MaxPathCalls
    /\ last' = PathState(Pop(last.segments), Append(last.calls, [call |-> "pop"]))
    /\ UNCHANGED <<compiled_schema, regex_cache, stats, remembered>>

NextPath == PathNewStep \/ PushStep \/ PushIndexStep \/ PopStep

SpecPath == InitPath /\ [][NextPath]_vars

RECURSIVE OnStack(_)
\* The segments still on the stack after the calls, in push order: a pop
\* removes the segment pushed last and nothing from the empty stack
OnStack(calls) ==
    IF calls = <<>> THEN <<>>
    ELSE LET before == OnStack(SubSeq(calls, 1, Len(calls) - 1))
             latest == calls[Len(calls)]
         IN  IF latest.call = "push" THEN before \o <<latest.segment>>
             ELSE IF latest.call = "push_index" THEN before \o <<"[" \o ToString(latest.index) \o "]">>
             ELSE IF before = <<>> THEN <<>>
             ELSE [k \in 1..(Len(before) - 1) |-> before[k]]

\* The segments joined by ".": the text as its tokens
JoinedByDot(stack) == [k \in 1..(2 * Len(stack) - 1) |-> IF k % 2 = 1 THEN stack[(k + 1) \div 2] ELSE "."]

\* C30: after any sequence of push, push_index and pop calls build returns
\* the segments still on the stack, in push order and joined by ".", an
\* index i as "[i]"; pop removes the last segment only and nothing from the
\* empty path, which builds the empty text.
C30_PathBuilder ==
    last.op = "path" =>
        /\ last.built = JoinedByDot(OnStack(last.calls))
        /\ OnStack(last.calls) = <<>> => last.built = <<>>

\* push user, push_index 0, push name: user.[0].name
C30_Witness ==
    /\ last.op = "path"
    /\ last.calls = <<[call |-> "push", segment |-> "user"], [call |-> "push_index", index |-> 0], [call |-> "push", segment |-> "name"]>>
    /\ last.built = <<"user", ".", "[0]", ".", "name">>

====
